---- MODULE Spec2Model ----
(***************************************************************************)
(* Batch orchestration and sidecar cache of the subtitle translator:       *)
(* src/src/core.py (run_batch, process_one_video, the meta JSON helpers)   *)
(* and src/service.py (the chunked entry point).                           *)
(*                                                                         *)
(* Durations are kept in half seconds, so that int() in run_batch is a     *)
(* real truncation.  Times are a logical clock.  A subtitle file holds     *)
(* either nothing, a text left by an earlier program run ("old"), or the   *)
(* text of a transcript, verbatim or translated.                           *)
(***************************************************************************)
EXTENDS Integers, Sequences, FiniteSets, TLC

\* ------------------------------------------------------------------ bounds
NumVideos == 2
MaxRuns == 2
MaxSig == 2
MaxChunk == 2
MaxWrites == 2
MaxItems == 3
MaxList == 3
MaxDepth == 2
MaxWork == 3
MaxCues == 3
MaxTokens == 2
MaxDirs == 2
MaxStems == 2

\* --------------------------------------------------------------- constants
MAX_SUBS == 8000

Videos == 1..NumVideos

VARIABLES
    sig,          \* sig[v]: current (size, mtime) signature of the video file
    final_srt,    \* final_srt[v]: content of <stem>.en.srt
    source_srt,   \* source_srt[v]: content of <stem>.source.srt (fallback)
    meta,         \* meta[v]: content of the sidecar <video>.meta.json
    tmp,          \* tmp[v]: content of <video>.meta.json.tmp
    run,          \* number of run_batch calls started so far
    pc,           \* position of the worker inside run_batch
    idx,          \* loop index (1-based) of the scan loop or of the item loop
    mode,         \* existing_srt_mode of the current call: "skip" | "overwrite"
    eom,          \* english_output_mode: "all" | "non_english_only"
    videos,       \* the filtered list run_batch works on
    durations,    \* durations list built by the scan loop
    results,      \* results list of the current call
    samples,      \* progress samples emitted so far by the current call
    cancel,       \* the shared cancel flag
    cancelK,      \* number of items started when the flag was set (-1: not set)
    calls,        \* calls[v]: collaborator calls for v in the current call
    transcript,   \* transcript[v]: last output of the transcription collaborator
    prev,         \* how the previous call ended, and what changed since
    env,          \* env[v]: what the collaborators and the disk can do for v
    budget,       \* calls the caller will still make
    svc,          \* the state of service.py main
    aw,           \* the state of one _update_meta call, and of a reader
    est,          \* the two progress frames and the sample stream fed to them
    mt,           \* one call of _deep_merge on two trees, and the call repeated
    ui,           \* app.py: what the worker put last, what the poller has taken
    tr,           \* one call of NllbTranslator.translate_srt
    px            \* the output paths of the items of a call

vars == << sig, final_srt, source_srt, meta, tmp, run, pc, idx, mode, eom,
           videos, durations, results, samples, cancel, cancelK, calls,
           transcript, prev, env, budget, svc, aw, est, mt, ui, tr, px >>

\* ------------------------------------------------------------ file contents
NoFile == [kind |-> "none", lang |-> "", nsubs |-> 0, translated |-> FALSE]
OldFile == [kind |-> "old", lang |-> "", nsubs |-> 0, translated |-> FALSE]

\* The text srt.compose gives for a transcript, written verbatim.
Verbatim(t) == [kind |-> "srt", lang |-> t.lang, nsubs |-> t.nsubs, translated |-> FALSE]

\* ---------------------------------------------------------- sidecar document
NsAbsent == [st |-> "absent", detected |-> FALSE, file_sig |-> 0, whisper_model |-> ""]
NsNull == [st |-> "null", detected |-> FALSE, file_sig |-> 0, whisper_model |-> ""]
DataAbsent == [st |-> "absent", file_sig |-> 0, duration_s |-> 0]
ScanAbsent == [st |-> "absent", first_seen_utc |-> 0, last_seen_utc |-> 0]
SubAbsent == [st |-> "absent", detected_lang |-> "", translated |-> FALSE,
              wrote_en_srt |-> FALSE, english_output_mode |-> "", existing_srt_mode |-> ""]

\* What json.loads gives for "{}": a map with no key.
EmptyDoc == [kind |-> "doc", media_id |-> 0, library_relpath |-> 0, scan |-> ScanAbsent,
             no_speech |-> NsAbsent, subtitle |-> SubAbsent, data |-> DataAbsent]
AbsentFile == [EmptyDoc EXCEPT !.kind = "absent"]
CorruptFile == [EmptyDoc EXCEPT !.kind = "corrupt"]
PartialFile == [EmptyDoc EXCEPT !.kind = "partial"]
EmptyFile == [EmptyDoc EXCEPT !.kind = "empty"]

\* A patch names the keys it sets; "keep" marks a key the patch does not name.
NsKeep == [NsAbsent EXCEPT !.st = "keep"]
DataKeep == [DataAbsent EXCEPT !.st = "keep"]
ScanKeep == [ScanAbsent EXCEPT !.st = "keep"]
SubKeep == [SubAbsent EXCEPT !.st = "keep"]
NoPatch == [kind |-> "patch", media_id |-> 0, library_relpath |-> 0, scan |-> ScanKeep,
            no_speech |-> NsKeep, subtitle |-> SubKeep, data |-> DataKeep]

\* _read_json: {} for a missing file, for an empty one and for text
\* json.loads rejects; else what json.loads gives, a map or another value.
_read_json(f) == IF f.kind \in {"doc", "nonmap"} THEN f ELSE EmptyDoc

\* Mutant: what _read_json gives is taken for a map, whatever it is.
DocOfAny(f) == [_read_json(f) EXCEPT !.kind = "doc"]

\* The map a caller of _read_json goes on with: isinstance(doc, dict), else
\* the empty map (lines 60-61, 76, 88, 280 and 379).
DocOf(f) == IF _read_json(f).kind = "doc" THEN _read_json(f) ELSE EmptyDoc

\* One key of the "system" map: a map merges into a map key by key, anything
\* else replaces the destination.  whisper_model "" is a key the map lacks.
MergeNs(d, s) ==
    IF s.st = "keep" THEN d
    ELSE IF s.st = "dict" /\ d.st = "dict"
         THEN [st |-> "dict", detected |-> s.detected, file_sig |-> s.file_sig,
               whisper_model |-> IF s.whisper_model = "" THEN d.whisper_model
                                 ELSE s.whisper_model]
         ELSE s

MergeKey(d, s) == IF s.st = "keep" THEN d ELSE s

\* Mutant: the "system" map of the patch replaces the one of the document.
_deep_merge_shallow(dst, src) ==
    LET names == src.media_id # 0 \/ src.library_relpath # 0 \/ src.scan.st # "keep"
                    \/ src.no_speech.st # "keep" \/ src.subtitle.st # "keep"
        Put(d, x, absent) == IF x.st # "keep" THEN x ELSE IF names THEN absent ELSE d
    IN  [kind |-> "doc",
         media_id |-> IF names THEN src.media_id ELSE dst.media_id,
         library_relpath |-> IF names THEN src.library_relpath ELSE dst.library_relpath,
         scan |-> Put(dst.scan, src.scan, ScanAbsent),
         no_speech |-> Put(dst.no_speech, src.no_speech, NsAbsent),
         subtitle |-> Put(dst.subtitle, src.subtitle, SubAbsent),
         data |-> MergeKey(dst.data, src.data)]

_deep_merge(dst, src) ==
    [kind |-> "doc",
     media_id |-> IF src.media_id = 0 THEN dst.media_id ELSE src.media_id,
     library_relpath |-> IF src.library_relpath = 0 THEN dst.library_relpath
                         ELSE src.library_relpath,
     scan |-> MergeKey(dst.scan, src.scan),
     no_speech |-> MergeNs(dst.no_speech, src.no_speech),
     subtitle |-> MergeKey(dst.subtitle, src.subtitle),
     data |-> MergeKey(dst.data, src.data)]

\* _update_meta followed to its end: the file after the replace step.
_update_meta(f, patch) == _deep_merge(DocOf(f), patch)

\* Mutant: the write that raises has truncated the sidecar.
BestEffortTruncates(f, patch, wfail) == IF wfail THEN PartialFile ELSE _update_meta(f, patch)

\* _best_effort(lambda: _update_meta(...)): wfail is the write raising.
BestEffortUpdate(f, patch, wfail) == IF wfail THEN f ELSE _update_meta(f, patch)

\* ----------------------------------------------------- _deep_merge on trees
\* A JSON value: a leaf (null, a scalar, a list) or a map from keys to values.
Keys == {"a", "b"}
Leaves == {[t |-> "leaf", v |-> x, m |-> << >>] : x \in {"null", "scalar", "list"}}
MapOf(f) == [t |-> "map", v |-> "", m |-> f]
IsMap(x) == x.t = "map"

\* The maps of nesting depth at most d.
RECURSIVE Maps(_)
Maps(d) ==
    IF d = 0 THEN {}
    ELSE LET vals == Leaves \cup {MapOf(f) : f \in Maps(d - 1)}
         IN  UNION {[K -> vals] : K \in SUBSET Keys}

\* Mutant: a map of the patch replaces a map of the document.
RECURSIVE deep_merge_replace(_, _)
deep_merge_replace(dst, src) ==
    [k \in DOMAIN dst \cup DOMAIN src |->
        IF k \in DOMAIN src THEN src[k] ELSE dst[k]]

\* _deep_merge on maps of any shape: dst after the loop over src.items().
RECURSIVE deep_merge_tree(_, _)
deep_merge_tree(dst, src) ==
    [k \in DOMAIN dst \cup DOMAIN src |->
        IF k \notin DOMAIN src THEN dst[k]
        ELSE IF IsMap(src[k]) /\ k \in DOMAIN dst /\ IsMap(dst[k])
             THEN MapOf(deep_merge_tree(dst[k].m, src[k].m))
             ELSE src[k]]

MtIdle == [pc |-> "idle", dst |-> << >>, src |-> << >>, once |-> << >>, twice |-> << >>]

\* ------------------------------------------------------------ collaborators
\* What transcribe_to_srt returns: the detected language and the composed SRT
\* text, here its cue count ("" when no segment has text); or it raises.
TransErr == [lang |-> "err", nsubs |-> 0]
TransNone == [lang |-> "", nsubs |-> 0]
Transcripts == [lang : {"en", "fr", "xx"}, nsubs : {MAX_SUBS}]
                  \cup [lang : {"en", "fr"}, nsubs : {MAX_SUBS + 1}]
                  \cup {[lang |-> "en", nsubs |-> 0]}
TransOutcomes == Transcripts \cup {TransErr}

\* What _ffprobe_json gives after parsing: -1 for {} (tool absent, non-zero
\* exit, timeout), else the duration of the format section in half seconds.
ProbeOutcomes == {-1, 0, 3}

WHISPER_TO_NLLB(lang) ==
    CASE lang = "en" -> "eng_Latn"
      [] lang = "fr" -> "fra_Latn"
      [] OTHER -> ""

\* srt.compose numbers every cue and prints its times, so the text of a
\* transcript with at least one cue always holds digits.
has_real_text(t) == t.nsubs > 0

\* translate_srt: same cues, translated contents.
translate_srt(t) == [kind |-> "srt", lang |-> t.lang, nsubs |-> t.nsubs,
                     translated |-> TRUE]

\* ------------------------------------------------------------------ results
MsgCached == "skipped (no-speech cached)"
MsgExists == "skipped (srt already exists)"
MsgDecode == "audio decode failed"
MsgNoSpeech == "no srt created (no speech detected)"
MsgTooMany == "too many subtitle segments, saved source only"
MsgEnglishOnly == "skipped (english; translate-only mode)"
MsgEnglish == "english srt written"
MsgNoMapping == "no mapping (wrote source fallback)"
MsgTranslated == "translated to english"

Result(ok, message, v) == [ok |-> ok, message |-> message, video |-> v]

\* ------------------------------------------------------------ logical clock
\* time.time(), at the resolution of one run_batch call: a later call reads a
\* later time, and every call a later time than the time 1 of an earlier
\* program run.
Now == 1 + run

_file_sig(v) == sig[v]

\* ------------------------------------------------------- sidecar operations
\* _ensure_media_id: a stored non-blank id is kept, else uuid4 (here a number
\* no earlier run_batch call has drawn) is merged in, best effort.
EnsureMediaIdFresh(f, wfail) ==
    BestEffortUpdate(f, [NoPatch EXCEPT !.media_id = 100 + run], wfail)

\* Mutant: the stored id is not looked at.
EnsureMediaIdAlways(f, wfail) == EnsureMediaIdFresh(f, wfail)

_ensure_media_id(f, wfail) ==
    IF DocOf(f).media_id # 0 THEN f ELSE EnsureMediaIdFresh(f, wfail)

\* Mutant: the stored first_seen_utc is not looked at.
ScanPatchFirstSeenNow(f) ==
    [NoPatch EXCEPT !.scan = [st |-> "dict", first_seen_utc |-> Now, last_seen_utc |-> Now]]

\* The patch of _set_scan_fields (lines 93-101); last_scanned_utc is written
\* with the value of last_seen_utc and is kept as one field with it.
ScanPatch(f) ==
    LET scan == DocOf(f).scan
    IN  [NoPatch EXCEPT !.scan =
            [st |-> "dict",
             first_seen_utc |-> IF scan.first_seen_utc # 0 THEN scan.first_seen_utc ELSE Now,
             last_seen_utc |-> Now]]

_set_scan_fields(f, wfail) == BestEffortUpdate(f, ScanPatch(f), wfail)

\* library_root as the caller of run_batch passes it: service.py passes none
\* (0), the window the folder the user chose (1).
library_root == IF svc.pc = "running" THEN 0 ELSE 1

\* _set_library_relpath: nothing without a root, else the path of the video
\* under the root (here the root's number) is merged in, best effort.
_set_library_relpath(f, wfail) ==
    IF library_root = 0 THEN f
    ELSE BestEffortUpdate(f, [NoPatch EXCEPT !.library_relpath = library_root], wfail)

\* Mutant: the stored signature is not compared.
DataCachedAnySig(f, v) == DocOf(f).data.st = "dict"

\* The signature test of get_media_data.
DataCached(f, v) ==
    LET data == DocOf(f).data
    IN  data.st = "dict" /\ data.file_sig = _file_sig(v)

\* Mutant: the cache is not consulted, the probe runs at every call.
get_media_data_always_probes(f, v, pr, wfail) ==
    IF pr = -1
    THEN [f |-> f, probes |-> 1, ok |-> FALSE, duration_s |-> 0]
    ELSE [f |-> BestEffortUpdate(f,
                   [NoPatch EXCEPT !.data = [st |-> "dict", file_sig |-> _file_sig(v),
                                             duration_s |-> pr]], wfail),
          probes |-> 1, ok |-> TRUE, duration_s |-> pr]

\* get_media_data once _file_sig has returned: [f: the sidecar afterwards,
\* probes: the probe calls made, ok, duration_s].
get_media_data(f, v, pr, wfail) ==
    IF DataCached(f, v)
    THEN [f |-> f, probes |-> 0, ok |-> TRUE, duration_s |-> DocOf(f).data.duration_s]
    ELSE IF pr = -1
         THEN [f |-> f, probes |-> 1, ok |-> FALSE, duration_s |-> 0]
         ELSE [f |-> BestEffortUpdate(f,
                        [NoPatch EXCEPT !.data = [st |-> "dict", file_sig |-> _file_sig(v),
                                                  duration_s |-> pr]], wfail),
               probes |-> 1, ok |-> TRUE, duration_s |-> pr]

\* Mutant: a failed probe counts as one half second of work.
DurationOrOne(g) == IF g.ok /\ g.duration_s > 0 THEN g.duration_s ELSE 1

\* get_media_duration_seconds on top of a get_media_data answer.
DurationOf(g) == IF g.ok /\ g.duration_s > 0 THEN g.duration_s ELSE 0

\* Mutant: "detected" is compared with a value JSON never gives.
NoSpeechCachedNever(f, v) == DocOf(f).no_speech.st = "never"

\* The test of lines 377-385: the cached no-speech skip.
NoSpeechCached(f, v) ==
    LET ns == DocOf(f).no_speech
    IN  ns.st = "dict" /\ ns.detected /\ ns.file_sig = _file_sig(v)

\* ------------------------------------------------------- process_one_video
\* Lines 366-369 once _file_sig has returned: the sidecar after
\* _ensure_media_id, _set_scan_fields and get_media_data, and the probe calls.
\* wf: the sidecar cannot be written during this step, every write raises.
ProcessPrelude(f, v, pr, wf) ==
    LET f1 == _ensure_media_id(f, wf)
        f2 == _set_library_relpath(_set_scan_fields(f1, wf), wf)
    IN  get_media_data(f2, v, pr, wf)

\* Lines 366-368 alone: what is on disk when _file_sig raises in line 369.
PreludeBeforeStat(f, wf) ==
    _set_library_relpath(_set_scan_fields(_ensure_media_id(f, wf), wf), wf)

SubtitlePatch(v, t, translated, wrote) ==
    [NoPatch EXCEPT
        !.subtitle = [st |-> "dict", detected_lang |-> t.lang, translated |-> translated,
                      wrote_en_srt |-> wrote, english_output_mode |-> eom,
                      existing_srt_mode |-> mode],
        !.no_speech = [st |-> "dict", detected |-> FALSE, file_sig |-> _file_sig(v),
                       whisper_model |-> ""]]

NoSpeechPatch(v) ==
    [NoPatch EXCEPT
        !.no_speech = [st |-> "dict", detected |-> TRUE, file_sig |-> _file_sig(v),
                       whisper_model |-> "medium"]]

\* ok of the Result of the no-speech terminal (line 432) and of the
\* segment-overflow terminal (line 443).
NoSpeechOk == FALSE
TooManyOk == FALSE

\* Mutant: the ceiling is off by one.
TooManySubsOffByOne(t) == t.nsubs > MAX_SUBS + 1

\* The segment guard of line 439.
TooManySubs(t) == t.nsubs > MAX_SUBS

\* Mutant: overwrite mode leaves the fallback file and no_speech alone.
OverwriteResetKeeps(f, src, wf) == [f |-> f, src |-> src]

\* Lines 390-392: the fallback file is unlinked and no_speech is set to null,
\* best effort.
OverwriteReset(f, src, wf) ==
    [f |-> BestEffortUpdate(f, [NoPatch EXCEPT !.no_speech = NsNull], wf), src |-> NoFile]

\* Mutant: the translate-only terminal leaves the final subtitle alone.
EnglishOnlyFinalKept(fin0) == fin0

\* Lines 447-448: the final subtitle after the translate-only terminal.
EnglishOnlyFinal(fin0) == IF mode = "overwrite" THEN NoFile ELSE fin0

\* Lines 371-574.  t is what the transcription collaborator answers, raises
\* says that the first subtitle write or translation reached raises, wf that
\* the sidecar writes raise.  The answer: exc (an exception leaves
\* process_one_video), res, the files afterwards (f sidecar, fin final
\* subtitle, src fallback), the collaborator calls made, the transcript.
ProcessFrom(f0, v, t, raises, wf) ==
    LET fin0 == final_srt[v]
        Ret(ok, msg, f, fin, src, w, n) ==
            [exc |-> FALSE, res |-> Result(ok, msg, v), f |-> f, fin |-> fin, src |-> src,
             whisper |-> w, nllb |-> n, t |-> IF w = 0 THEN TransNone ELSE t]
        Exc(f, fin, src, w, n) ==
            [exc |-> TRUE, res |-> Result(FALSE, "", v), f |-> f, fin |-> fin, src |-> src,
             whisper |-> w, nllb |-> n, t |-> IF w = 0 THEN TransNone ELSE t]
    IN
    IF mode = "skip" /\ NoSpeechCached(f0, v)
    THEN Ret(TRUE, MsgCached, f0, fin0, source_srt[v], 0, 0)
    ELSE
    LET reset == IF mode = "overwrite" THEN OverwriteReset(f0, source_srt[v], wf)
                 ELSE [f |-> f0, src |-> source_srt[v]]
        src1 == reset.src
        f1 == reset.f
        Final(patch) == BestEffortUpdate(f1, patch, wf)
    IN
    IF fin0.kind # "none" /\ mode = "skip"
    THEN Ret(TRUE, MsgExists, f1, fin0, src1, 0, 0)
    ELSE IF t = TransErr
    THEN Ret(FALSE, MsgDecode, f1, fin0, src1, 1, 0)
    ELSE IF ~has_real_text(t)
    THEN Ret(NoSpeechOk, MsgNoSpeech, Final(NoSpeechPatch(v)), fin0, src1, 1, 0)
    ELSE IF TooManySubs(t)
    THEN IF raises THEN Exc(f1, fin0, src1, 1, 0)
         ELSE Ret(TooManyOk, MsgTooMany, f1, fin0, Verbatim(t), 1, 0)
    ELSE IF t.lang = "en"
    THEN IF eom = "non_english_only"
         THEN Ret(TRUE, MsgEnglishOnly, Final(SubtitlePatch(v, t, FALSE, FALSE)),
                  EnglishOnlyFinal(fin0), src1, 1, 0)
         ELSE IF raises THEN Exc(f1, fin0, src1, 1, 0)
              ELSE Ret(TRUE, MsgEnglish, Final(SubtitlePatch(v, t, FALSE, TRUE)),
                       Verbatim(t), src1, 1, 0)
    ELSE IF WHISPER_TO_NLLB(t.lang) = ""
    THEN IF raises THEN Exc(f1, fin0, src1, 1, 0)
         ELSE Ret(FALSE, MsgNoMapping, Final(SubtitlePatch(v, t, FALSE, FALSE)),
                  fin0, Verbatim(t), 1, 0)
    ELSE IF raises THEN Exc(f1, fin0, src1, 1, 1)
         ELSE Ret(TRUE, MsgTranslated, Final(SubtitlePatch(v, t, TRUE, TRUE)),
                  translate_srt(t), NoFile, 1, 1)

\* process_one_video from line 371 on, on the sidecar as it is on disk.
ProcessMain(v, t, raises, wf) == ProcessFrom(meta[v], v, t, raises, wf)

\* _did_work_from_result: the substring tests, on the messages of the program.
Contains(msg, needle) ==
    CASE needle = "skipped" -> msg \in {MsgCached, MsgExists, MsgEnglishOnly}
      [] needle = "no speech detected" -> msg = MsgNoSpeech
      [] needle = "no-speech cached" -> msg = MsgCached
      [] needle = "translated to english" -> msg = MsgTranslated
      [] needle = "english srt written" -> msg = MsgEnglish
      [] needle = "wrote source fallback" -> msg = MsgNoMapping
      [] needle = "saved source only" -> msg = MsgTooMany
      [] OTHER -> FALSE

_did_work_from_result(r) ==
    IF Contains(r.message, "skipped") THEN FALSE
    ELSE IF Contains(r.message, "no speech detected") \/ Contains(r.message, "no-speech cached")
    THEN FALSE
    ELSE IF Contains(r.message, "translated to english") THEN TRUE
    ELSE IF Contains(r.message, "english srt written") THEN TRUE
    ELSE IF Contains(r.message, "wrote source fallback") \/ Contains(r.message, "saved source only")
    THEN TRUE
    ELSE r.ok

\* ---------------------------------------------------------------- run_batch
\* Mutant: the existing subtitle is not looked at.
should_skip_fast_never(v, m) == FALSE

should_skip_fast(v, m) == IF m # "skip" THEN FALSE ELSE final_srt[v].kind # "none"

\* Mutant: the mode is not looked at, overwrite mode drops videos too.
filter_videos_any_mode(vs, m) == SelectSeq(vs, LAMBDA v : final_srt[v].kind = "none")

filter_videos_for_run(vs, m) ==
    IF m # "skip" THEN vs ELSE SelectSeq(vs, LAMBDA v : ~should_skip_fast(v, m))

\* The caller's list: collect_videos sorts it.
AllVideos == [i \in 1..NumVideos |-> i]

RECURSIVE SumTo(_, _)
SumTo(ds, k) == IF k = 0 THEN 0 ELSE SumTo(ds, k - 1) + ds[k]

\* int() of a float number of seconds, kept here in half seconds.
ToInt(w) == w \div 2

\* Mutant: the counter handed to the callback lags one item behind.
SampleLagging(done, total, ds, didwork) ==
    [files_done |-> done - 1, files_total |-> total, work_done |-> ToInt(SumTo(ds, done)),
     work_total |-> ToInt(SumTo(ds, Len(ds))), did_work |-> didwork]

\* One call of the progress callback (lines 634 and 656-663).
Sample(done, total, ds, didwork) ==
    [files_done |-> done, files_total |-> total, work_done |-> ToInt(SumTo(ds, done)),
     work_total |-> ToInt(SumTo(ds, Len(ds))), did_work |-> didwork]

NoCalls == [whisper |-> 0, nllb |-> 0, probe |-> 0]

\* The message of v in the results of the call that ended, "dropped" when the
\* prefilter removed v, "none" when the call never reached v.
MsgOf(v) ==
    IF \E i \in 1..Len(results) : results[i].video = v
    THEN (CHOOSE r \in {results[i] : i \in 1..Len(results)} : r.video = v).message
    ELSE IF \A i \in 1..Len(videos) : videos[i] # v THEN "dropped" ELSE "none"

\* What the sidecar of v holds, read off the file itself: a no-speech record,
\* or media data, stored with the signature the file has now.
NsValid(v) ==
    /\ meta[v].kind = "doc"
    /\ meta[v].no_speech.st = "dict"
    /\ meta[v].no_speech.detected
    /\ meta[v].no_speech.file_sig = sig[v]

DataValid(v) ==
    /\ meta[v].kind = "doc"
    /\ meta[v].data.st = "dict"
    /\ meta[v].data.file_sig = sig[v]

\* How the call that ended left the library; changed[v] says that the file of
\* v was rewritten at some time.
Snapshot ==
    [mode |-> mode,
     complete |-> pc = "returned" /\ ~cancel,
     msg |-> [v \in Videos |-> MsgOf(v)],
     cached |-> [v \in Videos |-> NsValid(v)],
     changed |-> prev.changed]

\* should_cancel(): app.py hands cancel_flag.is_set to run_batch.
should_cancel == cancel

\* run_batch lines 592-604 on the list vs: the list is filtered, the loops
\* start; a call on an empty filtered list returns at once.
RunBatchStart(vs, m, e) ==
    /\ run' = run + 1
    /\ mode' = m
    /\ eom' = e
    /\ videos' = filter_videos_for_run(vs, m)
    /\ pc' = IF videos' = << >> THEN "returned" ELSE "scan"
    /\ idx' = 1
    /\ results' = << >>
    /\ samples' = << >>
    /\ durations' = << >>
    /\ calls' = [v \in Videos |-> NoCalls]
    /\ transcript' = [v \in Videos |-> TransNone]
    /\ prev' = IF run = 0 THEN prev ELSE Snapshot
    /\ UNCHANGED << sig, final_srt, source_srt, meta, tmp, env >>

\* app.py start_work: the flag is cleared and the worker calls run_batch on
\* the whole list.
StartRun(m, e) ==
    /\ pc \in {"idle", "returned", "raised"}
    /\ budget > 0
    /\ run = 0 \/ e = eom
    /\ budget' = budget - 1
    /\ cancel' = FALSE
    /\ cancelK' = -1
    /\ RunBatchStart(AllVideos, m, e)
    /\ UNCHANGED << svc, aw, est, mt, ui, tr, px >>

\* Lines 608-611.
ScanCancel ==
    /\ pc = "scan"
    /\ should_cancel
    /\ pc' = "returned"
    /\ UNCHANGED << sig, final_srt, source_srt, meta, tmp, run, idx, mode, eom, videos,
                    durations, results, samples, cancel, cancelK, calls, transcript, prev, env, budget, svc, aw, est, mt, ui, tr, px >>

\* What is on disk after lines 613-619 for the sidecar f of v.
ScanWrites(f, v, pr, wf) ==
    LET g1 == get_media_data(f, v, pr, wf)
        g2 == get_media_data(g1.f, v, pr, wf)
        f3 == _set_library_relpath(_set_scan_fields(g2.f, wf), wf)
    IN  [f |-> _ensure_media_id(f3, wf),
         probes |-> g1.probes + g2.probes,
         dur |-> DurationOf(g2)]

\* One round of the scan loop, lines 607-622; after the last one lines 624-625.
\* statOk: _file_sig finds the file; pr: what the probe answers.
ScanStep ==
    /\ pc = "scan"
    /\ ~should_cancel
    /\ \E statOk \in env[videos[idx]].stat, pr \in env[videos[idx]].probe,
          wf \in env[videos[idx]].wfail :
         LET v == videos[idx]
             s == ScanWrites(meta[v], v, pr, wf)
         IN  IF ~statOk
             THEN /\ pc' = "raised"
                  /\ UNCHANGED << meta, durations, calls, idx >>
             ELSE /\ meta' = [meta EXCEPT ![v] = s.f]
                  /\ durations' = Append(durations, s.dur)
                  /\ calls' = [calls EXCEPT ![v].probe = @ + s.probes]
                  /\ IF idx = Len(videos)
                     THEN pc' = "loop" /\ idx' = 1
                     ELSE pc' = "scan" /\ idx' = idx + 1
    /\ UNCHANGED << sig, final_srt, source_srt, tmp, run, mode, eom, videos, results,
                    samples, cancel, cancelK, transcript, prev, env, budget, svc, aw, est, mt, ui, tr, px >>

\* Lines 628-631.
LoopCancel ==
    /\ pc = "loop"
    /\ should_cancel
    /\ pc' = "returned"
    /\ UNCHANGED << sig, final_srt, source_srt, meta, tmp, run, idx, mode, eom, videos,
                    durations, results, samples, cancel, cancelK, calls, transcript, prev, env, budget, svc, aw, est, mt, ui, tr, px >>

\* Lines 633-638 and process_one_video up to line 369: the pre sample, the
\* scan fields, the media id and the media data of the item.
ItemBegin ==
    /\ pc = "loop"
    /\ ~should_cancel
    /\ samples' = Append(samples, Sample(idx - 1, Len(videos), durations, FALSE))
    /\ \E statOk \in env[videos[idx]].stat, pr \in env[videos[idx]].probe,
          wf \in env[videos[idx]].wfail :
         LET v == videos[idx]
             f0 == _set_scan_fields(meta[v], wf)
             g == ProcessPrelude(f0, v, pr, wf)
         IN  IF ~statOk
             THEN /\ pc' = "raised"
                  /\ meta' = [meta EXCEPT ![v] = PreludeBeforeStat(f0, wf)]
                  /\ UNCHANGED calls
             ELSE /\ pc' = "inflight"
                  /\ meta' = [meta EXCEPT ![v] = g.f]
                  /\ calls' = [calls EXCEPT ![v].probe = @ + g.probes]
    /\ UNCHANGED << sig, final_srt, source_srt, tmp, run, idx, mode, eom, videos,
                    durations, results, cancel, cancelK, transcript, prev, env, budget, svc, aw, est, mt, ui, tr, px >>

\* process_one_video from line 371 on, then lines 650-668: the Result is
\* appended, the post sample emitted, the flag polled.
ItemEnd ==
    /\ pc = "inflight"
    /\ \E t \in env[videos[idx]].trans, raises \in env[videos[idx]].raises,
          wf \in env[videos[idx]].wfail :
         LET v == videos[idx]
             o == ProcessMain(v, t, raises, wf)
         IN  /\ meta' = [meta EXCEPT ![v] = o.f]
             /\ final_srt' = [final_srt EXCEPT ![v] = o.fin]
             /\ source_srt' = [source_srt EXCEPT ![v] = o.src]
             /\ calls' = [calls EXCEPT ![v].whisper = @ + o.whisper, ![v].nllb = @ + o.nllb]
             /\ transcript' = [transcript EXCEPT ![v] = o.t]
             /\ IF o.exc
                THEN /\ pc' = "raised"
                     /\ UNCHANGED << results, samples, idx >>
                ELSE /\ results' = Append(results, o.res)
                     /\ samples' = Append(samples, Sample(idx, Len(videos), durations,
                                                          _did_work_from_result(o.res)))
                     /\ IF should_cancel \/ idx = Len(videos)
                        THEN pc' = "returned" /\ idx' = idx
                        ELSE pc' = "loop" /\ idx' = idx + 1
    /\ UNCHANGED << sig, tmp, run, mode, eom, videos, durations, cancel, cancelK, prev, env, budget, svc, aw, est, mt, ui, tr, px >>

\* The presentation thread sets the flag (ProgressFrame.on_cancel) while the
\* worker is inside run_batch.
Started == IF pc = "scan" THEN 0 ELSE IF pc = "loop" THEN idx - 1 ELSE idx

SetCancel ==
    /\ pc \in {"scan", "loop", "inflight"}
    /\ ~cancel
    /\ cancel' = TRUE
    /\ cancelK' = Started
    /\ UNCHANGED << sig, final_srt, source_srt, meta, tmp, run, pc, idx, mode, eom, videos,
                    durations, results, samples, calls, transcript, prev, env, budget, svc, aw, est, mt, ui, tr, px >>

\* The library changes before a call: the file of v is rewritten, its
\* signature is a new one.
Touch(v) ==
    /\ pc \in {"idle", "returned", "raised"}
    /\ budget > 0
    /\ env[v].touch
    /\ sig[v] < MaxSig
    /\ sig' = [sig EXCEPT ![v] = @ + 1]
    /\ prev' = [prev EXCEPT !.changed[v] = TRUE]
    /\ UNCHANGED << final_srt, source_srt, meta, tmp, run, pc, idx, mode, eom, videos,
                    durations, results, samples, cancel, cancelK, calls, transcript, env, budget, svc, aw, est, mt, ui, tr, px >>

\* ------------------------------------------------------------------ service
\* service.py main: pc, the chunks still to run, global_done, total_all, the
\* results list, the progress lines printed; pass, first and lib are the
\* harness that runs main twice on the same library; work_all is the sum of
\* the durations the calls of run_batch that returned have scanned.
NoStatus == -1

SvcIdle == [pc |-> "idle", parts |-> << >>, part |-> << >>, global_done |-> 0,
            total_all |-> 0, results |-> << >>, printed |-> << >>, chunked |-> FALSE,
            pass |-> 1, status |-> NoStatus, videos2 |-> << >>, chunks |-> << >>,
            work_all |-> 0,
            args |-> [inp |-> << >>, m |-> "", e |-> "", size |-> 0],
            first |-> [pc |-> "", results |-> << >>, printed |-> << >>, chunked |-> FALSE],
            lib |-> << >>]

\* _update_meta in steps: pc, the document being written, the file before the
\* call, every document handed to the writer so far, what the reader got.
AwIdle == [pc |-> "idle", v |-> 0, doc |-> EmptyDoc, before |-> AbsentFile,
           docs |-> [v \in Videos |-> {}], seen |-> [v |-> 0, f |-> AbsentFile]]

\* app.py: fin is the kind and status of the completion event the worker has
\* put ("" while it has put none), got the number of events poll_ui_events
\* has taken off the queue.
UiIdle == [fin |-> "", got |-> 0]

\* translate_srt before it is called: the cues parsed, max_tokens, the loop
\* index, the batch being filled and its token count, the cues handed to
\* srt.compose; batches is every list handed to _translate_batch so far.
TrIdle == [pc |-> "idle", subs |-> << >>, max_tokens |-> 0, i |-> 1, current |-> << >>,
           current_tokens |-> 0, out |-> << >>, batches |-> << >>]

\* No call yet: the paths handed to run_batch, the index of the loop, and the
\* files written, deleted or tested so far with the item they were for.
PxIdle == [pc |-> "idle", vids |-> << >>, k |-> 1, ops |-> {}]

\* ---------------------------------------------------------- progress frames
\* A rate in work seconds per second, as a fraction; NoRate is None.
NoRate == [n |-> 0, d |-> 0]

RECURSIVE Gcd(_, _)
Gcd(a, b) == IF b = 0 THEN a ELSE Gcd(b, a % b)

Frac(n, d) == LET g == Gcd(n, d) IN [n |-> n \div g, d |-> d \div g]

\* alpha * inst + (1 - alpha) * prev, alpha = an / ad.
Ewma(an, ad, inst, old) ==
    Frac(an * inst.n * old.d + (ad - an) * old.n * inst.d, ad * inst.d * old.d)

NoEta == -1

\* A progress sample; elapsed is in tenths of a second.
ProgressSample(done, total, elapsed, done_work, total_work, did_work) ==
    [files_done |-> done, files_total |-> total, elapsed |-> elapsed,
     work_done |-> done_work, work_total |-> total_work, did_work |-> did_work]

Max(a, b) == IF a >= b THEN a ELSE b

\* ui/progress_frame.py reset(): learn_done, checkpoint, rate; eta is the
\* number of seconds eta_var shows, shown is what duration_var shows.
PfReset == [wps |-> NoRate, cp_work |-> 0, cp_elapsed |-> 0, learn_done |-> -1,
            eta |-> NoEta, shown |-> << 0, 0 >>]

\* Mutant: a sample learns whatever its did_work.
PfLearnsAlways(s) == TRUE

\* Lines 115 and 119 of ui/progress_frame.py: only a did_work sample learns.
PfLearns(s) == s.did_work

\* ui/progress_frame.py set_progress.
PfSetProgress(st, s) ==
    LET st1 == [st EXCEPT !.shown = << s.work_done, s.work_total >>]
        st2 == [st1 EXCEPT !.learn_done = s.files_done]
        dw == s.work_done - st.cp_work
        dt == s.elapsed - st.cp_elapsed
        inst == Frac(10 * dw, dt)
        st3 == IF dw > 0 /\ dt > 5
               THEN [st2 EXCEPT !.wps = IF st.wps = NoRate THEN inst
                                        ELSE Ewma(7, 20, inst, st.wps),
                                !.cp_work = s.work_done, !.cp_elapsed = s.elapsed]
               ELSE st2
    IN  IF ~PfLearns(s) THEN st1
        ELSE IF s.files_done = st.learn_done THEN st1
        ELSE IF s.work_done <= 0 \/ s.work_total <= 0 THEN [st2 EXCEPT !.eta = NoEta]
        ELSE IF st3.wps = NoRate \/ st3.wps.n <= 0 THEN [st3 EXCEPT !.eta = NoEta]
        ELSE [st3 EXCEPT !.eta =
                 (Max(0, s.work_total - s.work_done) * st3.wps.d) \div st3.wps.n]

\* app.py ProgressFrame as __init__ leaves it (lines 384-389 and 414-417).
AppReset == [wps |-> NoRate, cp_work |-> 0, cp_elapsed |-> 0, learn_done |-> 0,
             eta |-> NoEta, shown |-> << 0, 0 >>]

\* Mutant: a skip sample moves the checkpoint.
AppSkipMovesCheckpoint(st, s) ==
    [st EXCEPT !.shown = << Max(s.work_done, 0), Max(s.work_total, 0) >>,
               !.cp_work = Max(s.work_done, 0), !.cp_elapsed = s.elapsed]

\* app.py set_progress lines 464-473: a sample without did_work.
AppSkipSample(st, s) ==
    [st EXCEPT !.shown = << Max(s.work_done, 0), Max(s.work_total, 0) >>]

\* app.py ProgressFrame.set_progress (lines 435-527).
AppSetProgress(st, s) ==
    LET done_work == Max(s.work_done, 0)
        total_work == Max(s.work_total, 0)
        total == Max(s.files_total, 1)
        st2 == [st EXCEPT !.learn_done = s.files_done]
        dw == done_work - st.cp_work
        dt == s.elapsed - st.cp_elapsed
        inst == IF dw > 0 /\ dt > 1 THEN Frac(10 * dw, dt)
                ELSE IF done_work > 0 /\ s.elapsed > 5 THEN Frac(10 * done_work, s.elapsed)
                ELSE NoRate
        wps == IF st.wps = NoRate THEN inst ELSE Ewma(3, 10, inst, st.wps)
    IN  IF s.files_done <= 0
        THEN [st EXCEPT !.eta = NoEta, !.learn_done = 0, !.cp_work = 0, !.cp_elapsed = 0,
                        !.wps = NoRate]
        ELSE IF s.files_done = st.learn_done /\ s.work_done = st.cp_work THEN st
        ELSE IF ~s.did_work THEN AppSkipSample(st, s)
        ELSE IF s.files_done < 2
        THEN [st2 EXCEPT !.eta = NoEta, !.cp_work = done_work, !.cp_elapsed = s.elapsed]
        ELSE IF total_work <= 0
        THEN IF total > s.files_done /\ s.elapsed > 5
             THEN [st2 EXCEPT !.eta =
                      (s.elapsed * (total - s.files_done)) \div (10 * s.files_done)]
             ELSE [st2 EXCEPT !.eta = NoEta]
        ELSE IF inst = NoRate THEN [st2 EXCEPT !.eta = NoEta]
        ELSE [st2 EXCEPT !.wps = wps, !.cp_work = done_work, !.cp_elapsed = s.elapsed,
                         !.eta = IF wps.n > 0
                                 THEN (Max(0, total_work - done_work) * wps.d) \div wps.n
                                 ELSE NoEta,
                         !.shown = << done_work, total_work >>]

\* The frames before any batch, and the stream of one run_batch call: the
\* items of the call, those done, the work done and in all, the time.
EstIdle == [pf |-> PfReset, app |-> AppReset, phase |-> "idle",
            total |-> 0, done |-> 0, work |-> 0, total_work |-> 0, elapsed |-> 0,
            fed |-> 0, real |-> 0, rwork |-> 0, pf_rw |-> 0, app_rw |-> 0,
            last |-> ProgressSample(0, 1, 0, 0, 0, FALSE)]

\* ------------------------------------------------------------ initial state
\* Sidecars an earlier program run can have left (time 1, signature 0 or 1),
\* none at all, or a file that is not a JSON map.
OldNs(s) == [st |-> "dict", detected |-> TRUE, file_sig |-> s, whisper_model |-> "medium"]
OldData(s) == [st |-> "dict", file_sig |-> s, duration_s |-> 3]
OldScan == [st |-> "dict", first_seen_utc |-> 1, last_seen_utc |-> 1]
OldDoc(ns, d) ==
    [EmptyDoc EXCEPT !.media_id = 7, !.library_relpath = 2, !.scan = OldScan,
                     !.no_speech = ns, !.data = d]

\* A sidecar that holds valid JSON that is no map: a document put in a list.
NonMapFile == [OldDoc(OldNs(1), OldData(1)) EXCEPT !.kind = "nonmap"]

\* What an earlier program run, or the user, can have left for one video.
InitFiles ==
    { [fin |-> NoFile, src |-> NoFile, f |-> AbsentFile],
      [fin |-> NoFile, src |-> NoFile, f |-> CorruptFile],
      [fin |-> NoFile, src |-> NoFile, f |-> OldDoc(OldNs(1), OldData(1))],
      [fin |-> NoFile, src |-> OldFile, f |-> OldDoc(OldNs(0), OldData(0))],
      [fin |-> OldFile, src |-> NoFile, f |-> OldDoc(NsAbsent, OldData(1))],
      [fin |-> OldFile, src |-> OldFile, f |-> AbsentFile] }

\* The environment of one video.  One video of the library meets every
\* behaviour of the collaborators and of the disk at every step; each other
\* video meets one fixed behaviour.
AnyEnv == [trans |-> TransOutcomes, probe |-> ProbeOutcomes, raises |-> BOOLEAN,
           wfail |-> BOOLEAN, stat |-> BOOLEAN, touch |-> TRUE]
FixedEnv(t, pr) == [trans |-> {t}, probe |-> {pr}, raises |-> {FALSE},
                    wfail |-> {FALSE}, stat |-> {TRUE}, touch |-> FALSE]

\* The fixed behaviours, each with the files it starts from: an English video,
\* a video subtitled by an earlier run, a video whose audio cannot be decoded.
Profiles ==
    { [files |-> [fin |-> NoFile, src |-> NoFile, f |-> AbsentFile],
       env |-> FixedEnv([lang |-> "en", nsubs |-> MAX_SUBS], 3)],
      [files |-> [fin |-> OldFile, src |-> NoFile, f |-> OldDoc(NsAbsent, OldData(1))],
       env |-> FixedEnv([lang |-> "fr", nsubs |-> MAX_SUBS], 3)],
      [files |-> [fin |-> NoFile, src |-> NoFile, f |-> AbsentFile],
       env |-> FixedEnv(TransErr, -1)] }

RichProfiles == {[files |-> fl, env |-> AnyEnv] : fl \in InitFiles}

\* The libraries: one video with a rich profile, the others with fixed ones.
Libraries ==
    {lib \in [Videos -> Profiles \cup RichProfiles] :
        Cardinality({v \in Videos : lib[v] \in RichProfiles}) = 1}

InitWith(lib, calls_left, svc0, aw0) ==
    /\ sig = [v \in Videos |-> 1]
    /\ final_srt = [v \in Videos |-> lib[v].files.fin]
    /\ source_srt = [v \in Videos |-> lib[v].files.src]
    /\ meta = [v \in Videos |-> lib[v].files.f]
    /\ env = [v \in Videos |-> lib[v].env]
    /\ tmp = [v \in Videos |-> AbsentFile]
    /\ budget = calls_left
    /\ svc = svc0
    /\ aw = aw0
    /\ est = EstIdle
    /\ mt = MtIdle
    /\ ui = UiIdle
    /\ tr = TrIdle
    /\ px = PxIdle
    /\ run = 0
    /\ pc = "idle"
    /\ idx = 1
    /\ mode = "skip"
    /\ eom = "all"
    /\ videos = << >>
    /\ durations = << >>
    /\ results = << >>
    /\ samples = << >>
    /\ cancel = FALSE
    /\ cancelK = -1
    /\ calls = [v \in Videos |-> NoCalls]
    /\ transcript = [v \in Videos |-> TransNone]
    /\ prev = [mode |-> "", complete |-> FALSE, msg |-> [v \in Videos |-> "none"],
               cached |-> [v \in Videos |-> FALSE],
               changed |-> [v \in Videos |-> FALSE]]

\* One call of run_batch on a library in any state earlier runs can have left.
Init == \E lib \in Libraries : InitWith(lib, 1, SvcIdle, AwIdle)

Next ==
    \/ \E m \in {"skip", "overwrite"}, e \in {"all", "non_english_only"} : StartRun(m, e)
    \/ ScanCancel
    \/ ScanStep
    \/ LoopCancel
    \/ ItemBegin
    \/ ItemEnd
    \/ SetCancel
    \/ \E v \in Videos : Touch(v)

Spec == Init /\ [][Next]_vars

\* Consecutive calls of run_batch on the same library, none of them cancelled:
\* the first finds a library no earlier run has touched, or a sidecar that is
\* not a JSON map.
RerunEnv == [AnyEnv EXCEPT !.probe = {3}, !.stat = {TRUE}]

RerunLibraries ==
    {lib \in [Videos -> Profiles \cup {[files |-> fl, env |-> RerunEnv] : fl \in InitFiles}] :
        /\ Cardinality({v \in Videos : lib[v].env = RerunEnv}) = 1
        /\ \A v \in Videos : lib[v].env = RerunEnv => lib[v].files.f.kind # "doc"}

InitRerun == \E lib \in RerunLibraries : InitWith(lib, MaxRuns, SvcIdle, AwIdle)

NextRerun ==
    \/ \E m \in {"skip", "overwrite"}, e \in {"all", "non_english_only"} : StartRun(m, e)
    \/ ScanStep
    \/ ItemBegin
    \/ ItemEnd
    \/ \E v \in Videos : Touch(v)

SpecRerun == InitRerun /\ [][NextRerun]_vars

\* One call of run_batch on a library where the sidecar of one video is
\* missing, empty, no JSON, or JSON that is no map.
UnreadableFiles == {AbsentFile, EmptyFile, CorruptFile, NonMapFile}

\* The fixed behaviour of the other videos: English, never met before.
EnglishProfile ==
    [files |-> [fin |-> NoFile, src |-> NoFile, f |-> AbsentFile],
     env |-> FixedEnv([lang |-> "en", nsubs |-> MAX_SUBS], 3)]

CorruptLibraries ==
    {lib \in [Videos -> {EnglishProfile} \cup
                 {[files |-> [fin |-> NoFile, src |-> NoFile, f |-> f], env |-> AnyEnv] :
                      f \in UnreadableFiles}] :
        Cardinality({v \in Videos : lib[v].env = AnyEnv}) = 1}

InitCorrupt == \E lib \in CorruptLibraries : InitWith(lib, 1, SvcIdle, AwIdle)

SpecCorrupt == InitCorrupt /\ [][Next]_vars

\* One call of run_batch on a library where one video meets every behaviour,
\* failing sidecar writes among them, and the others are English.
WriteLibraries ==
    {lib \in [Videos -> {EnglishProfile} \cup RichProfiles] :
        Cardinality({v \in Videos : lib[v] \in RichProfiles}) = 1}

InitWrites == \E lib \in WriteLibraries : InitWith(lib, 1, SvcIdle, AwIdle)

SpecWrites == InitWrites /\ [][Next]_vars

\* One call of run_batch whose worker thread keeps running and whose
\* collaborator calls all come back.  While the call runs one of ScanCancel,
\* ScanStep, LoopCancel, ItemBegin and ItemEnd can be taken, each of them
\* moves pc or idx, and no other step of Next does: the worker is fair when
\* pc and idx do not stand still for ever during the call.  The thread that
\* sets the cancel flag is under no such duty.  One video meets every
\* behaviour, never seen before or found silent by an earlier run; the
\* others are English.
LiveLibraries ==
    {lib \in [Videos -> {EnglishProfile} \cup
                 {[files |-> [fin |-> NoFile, src |-> NoFile, f |-> f], env |-> AnyEnv] :
                      f \in {AbsentFile, OldDoc(OldNs(1), OldData(1))}}] :
        Cardinality({v \in Videos : lib[v].env = AnyEnv}) = 1}

InitLive == \E lib \in LiveLibraries : InitWith(lib, 1, SvcIdle, AwIdle)

WorkerAdvances ==
    /\ pc \in {"scan", "loop", "inflight"}
    /\ pc' \in {"scan", "loop", "inflight", "returned", "raised"}
    /\ idx' \in 1..NumVideos

SpecLive == InitLive /\ [][Next]_vars /\ WF_<<pc, idx>>(WorkerAdvances)

\* ------------------------------------------------------------ app.py
\* An event on uiq (UiEvent, app.py lines 54-66).
NoSample == [files_done |-> -1, files_total |-> -1, work_done |-> -1, work_total |-> -1,
             did_work |-> FALSE]

UiEvent(kind, status, sample) == [kind |-> kind, status |-> status, sample |-> sample]

\* The status events of run_batch the model keeps: "Scanning" after the first
\* round of the scan loop (line 621), "Cancelled" when one of the three polls
\* of the flag stops the call (lines 608-611, 628-631, 665-668).
ScanningPut == IF Len(durations) >= 1 THEN << UiEvent("status", "Scanning", NoSample) >>
               ELSE << >>

CancelledPut == IF pc = "returned" /\ cancel /\ cancelK >= 0
                THEN << UiEvent("status", "Cancelled", NoSample) >>
                ELSE << >>

ProgressPut == [k \in 1..Len(samples) |-> UiEvent("progress", "", samples[k])]

\* The completion event the worker puts last: "done" with its status (lines
\* 188-201) or "error" (lines 202-205).
CompletionPut ==
    IF ui.fin = "" THEN << >>
    ELSE IF ui.fin = "error" THEN << UiEvent("error", "", NoSample) >>
    ELSE << UiEvent("done", ui.fin, NoSample) >>

\* Mutant: the completion event overtakes the events of the call.
EmittedCompletionFirst == CompletionPut \o ScanningPut \o ProgressPut \o CancelledPut

\* Everything the worker of start_work has put on uiq so far, in the order of
\* the puts; uiq is a queue.Queue without a size limit, so the queue holds the
\* events the poller has not taken yet in that same order.
Emitted == ScanningPut \o ProgressPut \o CancelledPut \o CompletionPut

Uiq == SubSeq(Emitted, ui.got + 1, Len(Emitted))

\* Mutant: the worker never reads the flag, the run is reported as done.
AppFinishAlwaysDone ==
    /\ pc = "returned"
    /\ ui.fin = ""
    /\ ui' = [ui EXCEPT !.fin = "Done"]
    /\ UNCHANGED << sig, final_srt, source_srt, meta, tmp, run, pc, idx, mode, eom, videos,
                    durations, results, samples, cancel, cancelK, calls, transcript, prev,
                    env, budget, svc, aw, est, mt, tr, px >>

\* worker, lines 148 and 188-201: run_batch returned, the flag is read, the
\* done event is put.
AppFinish ==
    /\ pc = "returned"
    /\ ui.fin = ""
    /\ ui' = [ui EXCEPT !.fin = IF cancel THEN "Cancelled" ELSE "Done"]
    /\ UNCHANGED << sig, final_srt, source_srt, meta, tmp, run, pc, idx, mode, eom, videos,
                    durations, results, samples, cancel, cancelK, calls, transcript, prev,
                    env, budget, svc, aw, est, mt, tr, px >>

\* worker, lines 202-205: an exception left run_batch, the error event is put.
AppError ==
    /\ pc = "raised"
    /\ ui.fin = ""
    /\ ui' = [ui EXCEPT !.fin = "error"]
    /\ UNCHANGED << sig, final_srt, source_srt, meta, tmp, run, pc, idx, mode, eom, videos,
                    durations, results, samples, cancel, cancelK, calls, transcript, prev,
                    env, budget, svc, aw, est, mt, tr, px >>

\* poll_ui_events, one turn of the loop of lines 212-213: get_nowait takes the
\* oldest event off the queue.
AppPoll ==
    /\ ui.got < Len(Emitted)
    /\ ui' = [ui EXCEPT !.got = @ + 1]
    /\ UNCHANGED << sig, final_srt, source_srt, meta, tmp, run, pc, idx, mode, eom, videos,
                    durations, results, samples, cancel, cancelK, calls, transcript, prev,
                    env, budget, svc, aw, est, mt, tr, px >>

\* ProgressFrame.on_cancel (lines 541-545) once run_batch has returned and
\* before the worker reads the flag in line 148: the Cancel button is still
\* there, the flag is set, no poll of run_batch sees it.
AppCancelLate ==
    /\ pc = "returned"
    /\ ui.fin = ""
    /\ ~cancel
    /\ cancel' = TRUE
    /\ UNCHANGED << sig, final_srt, source_srt, meta, tmp, run, pc, idx, mode, eom, videos,
                    durations, results, samples, cancelK, calls, transcript, prev,
                    env, budget, svc, aw, est, mt, ui, tr, px >>

\* One run started from the window: the worker thread keeps running and its
\* collaborator calls come back; the thread that polls the queue and sets the
\* flag is under no duty.  One video meets every behaviour, the others are
\* English.
NextApp ==
    \/ \E m \in {"skip", "overwrite"}, e \in {"all", "non_english_only"} : StartRun(m, e)
    \/ ScanCancel
    \/ ScanStep
    \/ LoopCancel
    \/ ItemBegin
    \/ ItemEnd
    \/ SetCancel
    \/ AppCancelLate
    \/ AppFinish
    \/ AppError
    \/ AppPoll

SpecApp ==
    /\ InitLive
    /\ [][NextApp]_vars
    /\ WF_<<pc, idx>>(WorkerAdvances)
    /\ WF_ui(AppFinish)
    /\ WF_ui(AppError)

\* One call of run_batch on a library where an earlier run found one video
\* silent: its sidecar holds the no-speech record with the current signature
\* and technical data that are current, stale or missing (the probe failed
\* or the write of the data did).  The other videos are English.
CachedLibraries ==
    {lib \in [Videos -> {EnglishProfile} \cup
                 {[files |-> [fin |-> NoFile, src |-> NoFile, f |-> OldDoc(OldNs(1), d)],
                   env |-> AnyEnv] : d \in {OldData(1), OldData(0), DataAbsent}}] :
        Cardinality({v \in Videos : lib[v].env = AnyEnv}) = 1}

InitCached == \E lib \in CachedLibraries : InitWith(lib, 1, SvcIdle, AwIdle)

SpecCached == InitCached /\ [][Next]_vars

\* Two consecutive calls of run_batch on a library where an earlier run found
\* one video silent and left a fallback file next to it; the other videos are
\* English.
ResetLibraries ==
    {lib \in [Videos -> {EnglishProfile} \cup
                 {[files |-> [fin |-> NoFile, src |-> OldFile,
                              f |-> OldDoc(OldNs(1), OldData(1))],
                   env |-> RerunEnv]}] :
        Cardinality({v \in Videos : lib[v].env = RerunEnv}) = 1}

InitReset == \E lib \in ResetLibraries : InitWith(lib, MaxRuns, SvcIdle, AwIdle)

SpecReset == InitReset /\ [][NextRerun]_vars

\* ------------------------------------------------------------ service run
\* chunked: consecutive slices of max(1, size) items.
RECURSIVE chunked(_, _)
chunked(items, size) ==
    LET n == IF size < 1 THEN 1 ELSE size
    IN  IF Len(items) = 0 THEN << >>
        ELSE IF Len(items) <= n THEN << items >>
        ELSE << SubSeq(items, 1, n) >> \o chunked(SubSeq(items, n + 1, Len(items)), size)

\* chunk_progress (service.py lines 87-89): what main prints for the sample s
\* of the running chunk.
chunk_progress(s) ==
    [s EXCEPT !.files_done = svc.global_done + s.files_done, !.files_total = svc.total_all]

\* The lines main prints for the samples of the call that returned.
Printed == [i \in 1..Len(samples) |-> IF svc.chunked THEN chunk_progress(samples[i])
                                      ELSE samples[i]]

\* main, lines 60-99 and 105: the prefilter, exit 0 when nothing is left, else
\* the first call of run_batch, on the first chunk or on the whole list.
SvcMain(inp, m, e, size, thr) ==
    /\ svc.pc = "idle"
    /\ pc = "idle"
    /\ svc.pass = 2 => inp = svc.args.inp /\ m = svc.args.m /\ e = svc.args.e /\ thr = MaxList
    /\ LET videos2 == filter_videos_for_run(inp, m)
           parts == chunked(videos2, size)
           args == [inp |-> inp, m |-> m, e |-> e, size |-> size]
       IN  IF videos2 = << >>
           THEN /\ svc' = [svc EXCEPT !.pc = "exit0", !.status = 0, !.args = args]
                /\ UNCHANGED << sig, final_srt, source_srt, meta, tmp, run, pc, idx, mode,
                                eom, videos, durations, results, samples, calls, transcript,
                                prev, env >>
           ELSE IF Len(videos2) > thr
           THEN /\ svc' = [svc EXCEPT !.pc = "running", !.chunked = TRUE,
                                      !.total_all = Len(videos2), !.global_done = 0,
                                      !.part = Head(parts), !.parts = Tail(parts),
                                      !.videos2 = videos2, !.chunks = parts,
                                      !.args = args]
                /\ RunBatchStart(Head(parts), m, e)
           ELSE /\ svc' = [svc EXCEPT !.pc = "running", !.chunked = FALSE,
                                      !.part = videos2, !.parts = << >>,
                                      !.videos2 = videos2, !.chunks = << videos2 >>,
                                      !.args = args]
                /\ RunBatchStart(videos2, m, e)
    /\ UNCHANGED << cancel, cancelK, budget, aw, est, mt, ui, tr, px >>

\* main, lines 100-101 and the next turn of the loop of line 91: the chunk's
\* results are appended and the next chunk starts.
SvcNextChunk ==
    /\ svc.pc = "running"
    /\ pc = "returned"
    /\ svc.parts # << >>
    /\ svc' = [svc EXCEPT !.results = @ \o results, !.printed = @ \o Printed,
                          !.global_done = @ + Len(svc.part),
                          !.work_all = @ + SumTo(durations, Len(durations)),
                          !.part = Head(svc.parts), !.parts = Tail(svc.parts)]
    /\ RunBatchStart(Head(svc.parts), mode, eom)
    /\ UNCHANGED << cancel, cancelK, budget, aw, est, mt, ui, tr, px >>

\* main, lines 118-119: SystemExit(2) when a Result is not ok, else the end
\* of main.
ExitStatus(rs) == IF \E i \in 1..Len(rs) : ~rs[i].ok THEN 2 ELSE 0

\* An exception leaves run_batch and main: the interpreter prints the
\* traceback and ends with status 1; the progress lines of the call were
\* printed, its Results are lost.
SvcCrash ==
    /\ svc.pc = "running"
    /\ pc = "raised"
    /\ svc' = [svc EXCEPT !.pc = "crashed", !.printed = @ \o Printed, !.status = 1]
    /\ UNCHANGED << sig, final_srt, source_srt, meta, tmp, run, pc, idx, mode, eom,
                    videos, durations, results, samples, cancel, cancelK, calls,
                    transcript, prev, env, budget, aw, est, mt, ui, tr, px >>

\* main, lines 100-101 or 105 after the last call, then lines 114-119.
SvcFinish ==
    /\ svc.pc = "running"
    /\ pc = "returned"
    /\ svc.parts = << >>
    /\ svc' = [svc EXCEPT !.pc = "done", !.results = @ \o results,
                          !.printed = @ \o Printed,
                          !.global_done = @ + Len(svc.part),
                          !.work_all = @ + SumTo(durations, Len(durations)),
                          !.status = ExitStatus(svc.results \o results)]
    /\ UNCHANGED << sig, final_srt, source_srt, meta, tmp, run, pc, idx, mode, eom,
                    videos, durations, results, samples, cancel, cancelK, calls,
                    transcript, prev, env, budget, aw, est, mt, ui, tr, px >>

\* The library is put back as it was and main runs again with the same modes
\* and a threshold no list exceeds.
SvcAgain ==
    /\ svc.pc \in {"done", "exit0", "crashed"}
    /\ svc.pass = 1
    /\ svc' = [SvcIdle EXCEPT !.pass = 2, !.args = svc.args, !.lib = svc.lib,
                              !.first = [pc |-> svc.pc, results |-> svc.results,
                                         printed |-> svc.printed, chunked |-> svc.chunked]]
    /\ sig' = [v \in Videos |-> 1]
    /\ final_srt' = [v \in Videos |-> svc.lib[v].files.fin]
    /\ source_srt' = [v \in Videos |-> svc.lib[v].files.src]
    /\ meta' = [v \in Videos |-> svc.lib[v].files.f]
    /\ run' = 0
    /\ pc' = "idle"
    /\ idx' = 1
    /\ videos' = << >>
    /\ durations' = << >>
    /\ results' = << >>
    /\ samples' = << >>
    /\ calls' = [v \in Videos |-> NoCalls]
    /\ transcript' = [v \in Videos |-> TransNone]
    /\ UNCHANGED << tmp, mode, eom, cancel, cancelK, prev, env, budget, aw, est, mt, ui, tr, px >>

\* Videos whose collaborators answer the same way every time: an English
\* video, a subtitled one, an undecodable one, a French one, a silent one,
\* a French one whose translation raises.
SvcProfiles ==
    Profiles \cup
    { [files |-> [fin |-> NoFile, src |-> NoFile, f |-> AbsentFile],
       env |-> FixedEnv([lang |-> "fr", nsubs |-> MAX_SUBS], 3)],
      [files |-> [fin |-> NoFile, src |-> NoFile, f |-> OldDoc(OldNs(0), OldData(1))],
       env |-> FixedEnv([lang |-> "en", nsubs |-> 0], 3)],
      [files |-> [fin |-> NoFile, src |-> NoFile, f |-> AbsentFile],
       env |-> [FixedEnv([lang |-> "fr", nsubs |-> MAX_SUBS], 3) EXCEPT !.raises = {TRUE}]] }

\* The lists main can be given: paths in sorted order, a path possibly
\* more than once.
SvcInputs ==
    {inp \in UNION {[1..n -> Videos] : n \in 1..MaxList} :
        \A i \in 1..(Len(inp) - 1) : inp[i] <= inp[i + 1]}

InitSvc ==
    \E lib \in [Videos -> SvcProfiles] :
        /\ InitWith(lib, 0, [SvcIdle EXCEPT !.lib = lib], AwIdle)

NextSvc ==
    \/ \E m \in {"skip", "overwrite"}, e \in {"all", "non_english_only"},
          size \in 0..MaxChunk, thr \in 0..MaxList : SvcMain(AllVideos, m, e, size, thr)
    \/ ScanStep
    \/ ItemBegin
    \/ ItemEnd
    \/ SvcNextChunk
    \/ SvcFinish
    \/ SvcCrash
    \/ SvcAgain

SpecSvc == InitSvc /\ [][NextSvc]_vars

\* main given any list, once, over a library of French videos: fresh ones,
\* subtitled ones, and ones whose translation raises.
ChunkProfiles ==
    { [files |-> [fin |-> NoFile, src |-> NoFile, f |-> AbsentFile],
       env |-> FixedEnv([lang |-> "fr", nsubs |-> MAX_SUBS], 3)],
      [files |-> [fin |-> OldFile, src |-> NoFile, f |-> OldDoc(NsAbsent, OldData(1))],
       env |-> FixedEnv([lang |-> "fr", nsubs |-> MAX_SUBS], 3)],
      [files |-> [fin |-> NoFile, src |-> NoFile, f |-> AbsentFile],
       env |-> [FixedEnv([lang |-> "fr", nsubs |-> MAX_SUBS], 3) EXCEPT !.raises = {TRUE}]] }

InitChunk ==
    \E lib \in [Videos -> ChunkProfiles] :
        /\ InitWith(lib, 0, [SvcIdle EXCEPT !.lib = lib], AwIdle)

NextChunk ==
    \/ \E inp \in SvcInputs, m \in {"skip", "overwrite"}, e \in {"all", "non_english_only"},
          size \in 0..MaxChunk, thr \in 0..MaxList : SvcMain(inp, m, e, size, thr)
    \/ ScanStep
    \/ ItemBegin
    \/ ItemEnd
    \/ SvcNextChunk
    \/ SvcFinish
    \/ SvcCrash

SpecChunk == InitChunk /\ [][NextChunk]_vars

\* main takes no cancel flag and hands none to run_batch (lines 92-99): the
\* one way to tell the service to stop is to interrupt the process.  Python
\* raises KeyboardInterrupt in the main thread; no handler of main or of
\* core.py catches it (they catch Exception), so it leaves run_batch and
\* main: the progress lines of the call were printed, the Results gathered so
\* far are not, and the process ends with status 130.
SvcInterrupt ==
    /\ svc.pc = "running"
    /\ pc \in {"scan", "loop", "inflight"}
    /\ ~cancel
    /\ cancel' = TRUE
    /\ pc' = "raised"
    /\ svc' = [svc EXCEPT !.pc = "crashed", !.printed = @ \o Printed, !.status = 130]
    /\ UNCHANGED << sig, final_srt, source_srt, meta, tmp, run, idx, mode, eom, videos,
                    durations, results, samples, cancelK, calls, transcript, prev, env,
                    budget, aw, est, mt, ui, tr, px >>

NextInterrupt ==
    \/ \E inp \in SvcInputs, m \in {"skip", "overwrite"}, e \in {"all", "non_english_only"},
          size \in 0..MaxChunk, thr \in 0..MaxList : SvcMain(inp, m, e, size, thr)
    \/ ScanStep
    \/ ItemBegin
    \/ ItemEnd
    \/ SvcNextChunk
    \/ SvcFinish
    \/ SvcCrash
    \/ SvcInterrupt

SpecInterrupt == InitChunk /\ [][NextInterrupt]_vars

\* ----------------------------------------------------------- sidecar write
\* Mutant: the document is written over the sidecar itself.
OpenSidecarForWrite(path, t) == [path |-> PartialFile, tmp |-> t]

\* _atomic_write_json line 45 as write_text opens its file: the temporary
\* sibling is created or truncated, the sidecar is not touched.
OpenForWrite(path, t) == [path |-> path, tmp |-> PartialFile]

\* os.replace(tmp, path), line 46.
replace(path, t) == [path |-> t, tmp |-> AbsentFile]

\* The patches the program hands to _update_meta.
Patches(v) ==
    { [NoPatch EXCEPT !.media_id = 100], ScanPatch(meta[v]),
      [NoPatch EXCEPT !.no_speech = NsNull], NoSpeechPatch(v),
      [NoPatch EXCEPT !.data = [st |-> "dict", file_sig |-> _file_sig(v), duration_s |-> 3]],
      SubtitlePatch(v, [lang |-> "fr", nsubs |-> MAX_SUBS], TRUE, TRUE) }

\* _update_meta lines 59-62 and _atomic_write_json up to the open of line 45.
AwBegin(v, patch) ==
    /\ aw.pc = "idle"
    /\ budget > 0
    /\ budget' = budget - 1
    /\ LET doc == _deep_merge(DocOf(meta[v]), patch)
           o == OpenForWrite(meta[v], tmp[v])
       IN  /\ aw' = [aw EXCEPT !.pc = "writing", !.v = v, !.doc = doc, !.before = meta[v],
                               !.docs[v] = @ \cup {doc}]
           /\ meta' = [meta EXCEPT ![v] = o.path]
           /\ tmp' = [tmp EXCEPT ![v] = o.tmp]
    /\ UNCHANGED << sig, final_srt, source_srt, run, pc, idx, mode, eom, videos, durations,
                    results, samples, cancel, cancelK, calls, transcript, prev, env, svc, est, mt, ui, tr, px >>

\* write_text returns: the temporary file holds the whole document.
AwWritten ==
    /\ aw.pc = "writing"
    /\ aw' = [aw EXCEPT !.pc = "written"]
    /\ tmp' = [tmp EXCEPT ![aw.v] = aw.doc]
    /\ UNCHANGED << sig, final_srt, source_srt, meta, run, pc, idx, mode, eom, videos,
                    durations, results, samples, cancel, cancelK, calls, transcript, prev,
                    env, budget, svc, est, mt, ui, tr, px >>

AwReplace ==
    /\ aw.pc = "written"
    /\ LET r == replace(meta[aw.v], tmp[aw.v])
       IN  /\ meta' = [meta EXCEPT ![aw.v] = r.path]
           /\ tmp' = [tmp EXCEPT ![aw.v] = r.tmp]
    /\ aw' = [aw EXCEPT !.pc = "idle"]
    /\ UNCHANGED << sig, final_srt, source_srt, run, pc, idx, mode, eom, videos, durations,
                    results, samples, cancel, cancelK, calls, transcript, prev, env, budget,
                    svc, est, mt, ui, tr, px >>

\* The process dies, or the write raises and _best_effort swallows it: the
\* call ends where it is and the files stay as they are.
AwCrash ==
    /\ aw.pc \in {"writing", "written"}
    /\ aw' = [aw EXCEPT !.pc = "idle"]
    /\ UNCHANGED << sig, final_srt, source_srt, meta, tmp, run, pc, idx, mode, eom, videos,
                    durations, results, samples, cancel, cancelK, calls, transcript, prev,
                    env, budget, svc, est, mt, ui, tr, px >>

\* A reader opens the sidecar of v at any moment: what the file holds then.
AwRead(v) ==
    /\ aw.seen # [v |-> v, f |-> meta[v]]
    /\ aw' = [aw EXCEPT !.seen = [v |-> v, f |-> meta[v]]]
    /\ UNCHANGED << sig, final_srt, source_srt, meta, tmp, run, pc, idx, mode, eom, videos,
                    durations, results, samples, cancel, cancelK, calls, transcript, prev,
                    env, budget, svc, est, mt, ui, tr, px >>

\* Every sidecar starts absent, not a JSON map, or as an earlier run left it.
InitAW ==
    \E f \in {AbsentFile, CorruptFile, OldDoc(OldNs(1), OldData(1))} :
        LET lib == [v \in Videos |->
                      [files |-> [fin |-> NoFile, src |-> NoFile, f |-> f],
                       env |-> FixedEnv(TransErr, -1)]]
        IN  InitWith(lib, MaxWrites, SvcIdle, [AwIdle EXCEPT !.docs = [v \in Videos |-> {f}]])

NextAW ==
    \/ \E v \in Videos : \E patch \in Patches(v) : AwBegin(v, patch)
    \/ AwWritten
    \/ AwReplace
    \/ AwCrash
    \/ \E v \in Videos : AwRead(v)

SpecAW == InitAW /\ [][NextAW]_vars

\* ------------------------------------------------------------ sample stream
OthersUnchangedEst ==
    UNCHANGED << sig, final_srt, source_srt, meta, tmp, run, pc, idx, mode, eom, videos,
                 durations, results, samples, cancel, cancelK, calls, transcript, prev,
                 env, budget, svc, aw, mt, ui, tr, px >>

\* The checkpoint of a frame: the work and the time the next delta starts at.
Checkpoint(st) == << st.cp_work, st.cp_elapsed >>

\* Both frames take the sample s, as poll_ui_events hands it over.  rwork is
\* the work of the items whose post sample had did_work so far; pf_rw and
\* app_rw are its value when the checkpoint of the frame last moved.
Feed(e, s) ==
    LET pf2 == PfSetProgress(e.pf, s)
        app2 == AppSetProgress(e.app, s)
        rw == IF s.did_work THEN e.rwork + (s.work_done - e.work) ELSE e.rwork
    IN  [e EXCEPT !.pf = pf2, !.app = app2,
                  !.last = s, !.fed = @ + 1,
                  !.real = IF s.did_work THEN @ + 1 ELSE @,
                  !.rwork = rw,
                  !.pf_rw = IF Checkpoint(pf2) # Checkpoint(e.pf) THEN rw ELSE @,
                  !.app_rw = IF Checkpoint(app2) # Checkpoint(e.app) THEN rw ELSE @]

\* A batch of n items and tw work seconds starts: app.py on_show (lines
\* 420-422) and reset() of ui/progress_frame.py.
EstShow(n, tw) ==
    /\ est.phase \in {"idle", "end"}
    /\ est' = [est EXCEPT !.pf = PfReset,
                          !.app = AppSetProgress(est.app, ProgressSample(0, 1, 0, 0, 0, FALSE)),
                          !.phase = "pre", !.total = n, !.done = 0,
                          !.work = 0, !.total_work = tw, !.elapsed = 0, !.fed = 0,
                          !.real = 0, !.rwork = 0, !.pf_rw = 0, !.app_rw = 0, !.last = ProgressSample(0, 1, 0, 0, 0, FALSE)]
    /\ OthersUnchangedEst

\* run_batch line 634: the sample before an item, right after the sample of
\* the item before it.
EstPre ==
    /\ est.phase = "pre"
    /\ est' = [Feed(est, ProgressSample(est.done, est.total, est.elapsed, est.work,
                                        est.total_work, FALSE))
                 EXCEPT !.phase = "post"]
    /\ OthersUnchangedEst

\* run_batch lines 653-663: the sample after an item of dur work seconds that
\* took dt tenths of a second.
EstPost(dt, dur, did_work) ==
    /\ est.phase = "post"
    /\ est.work + dur <= est.total_work
    /\ LET t == est.elapsed + dt
           e == Feed(est, ProgressSample(est.done + 1, est.total, t, est.work + dur,
                                         est.total_work, did_work))
       IN  est' = [e EXCEPT !.phase = IF est.done + 1 = est.total THEN "end" ELSE "pre",
                            !.done = @ + 1, !.work = @ + dur, !.elapsed = t]
    /\ OthersUnchangedEst

Delays == {0, 3, 7}

InitEta ==
    LET lib == [v \in Videos |->
                  [files |-> [fin |-> NoFile, src |-> NoFile, f |-> AbsentFile],
                   env |-> FixedEnv(TransErr, -1)]]
    IN  InitWith(lib, 0, SvcIdle, AwIdle)

NextEta ==
    \/ \E n \in 1..MaxItems, tw \in 0..MaxWork : EstShow(n, tw)
    \/ EstPre
    \/ \E dt \in Delays, dur \in 0..MaxWork, did_work \in BOOLEAN : EstPost(dt, dur, did_work)

SpecEta == InitEta /\ [][NextEta]_vars

\* ------------------------------------------------------- merge of two trees
\* _deep_merge(dst, src), then the same patch merged into the result.
MergeCall(dst, src) ==
    /\ mt.pc = "idle"
    /\ LET once == deep_merge_tree(dst, src)
       IN  mt' = [pc |-> "merged", dst |-> dst, src |-> src, once |-> once,
                  twice |-> deep_merge_tree(once, src)]
    /\ UNCHANGED << sig, final_srt, source_srt, meta, tmp, run, pc, idx, mode, eom, videos,
                    durations, results, samples, cancel, cancelK, calls, transcript, prev,
                    env, budget, svc, aw, est, ui, tr, px >>

MergeReturn ==
    /\ mt.pc = "merged"
    /\ mt' = MtIdle
    /\ UNCHANGED << sig, final_srt, source_srt, meta, tmp, run, pc, idx, mode, eom, videos,
                    durations, results, samples, cancel, cancelK, calls, transcript, prev,
                    env, budget, svc, aw, est, ui, tr, px >>

InitMerge ==
    LET lib == [v \in Videos |->
                  [files |-> [fin |-> NoFile, src |-> NoFile, f |-> AbsentFile],
                   env |-> FixedEnv(TransErr, -1)]]
    IN  InitWith(lib, 0, SvcIdle, AwIdle)

\* The documents and patches merged.
Trees == Maps(MaxDepth)

NextMerge ==
    \/ mt.pc = "idle" /\ \E dst \in Trees, src \in Trees : MergeCall(dst, src)
    \/ MergeReturn

SpecMerge == InitMerge /\ [][NextMerge]_vars

\* ================================================================== claims
InVideos(v) == \E i \in 1..Len(videos) : videos[i] = v

\* Both calls in skip mode, the first one complete, no file rewritten.
SecondSkipRun ==
    /\ run >= 2
    /\ mode = "skip"
    /\ prev.mode = "skip"
    /\ prev.complete
    /\ \A v \in Videos : ~prev.changed[v]

NoCollaborator(v) == calls[v].whisper = 0 /\ calls[v].nllb = 0

\* C1 as stated: in a second skip-mode call on an unchanged library no video
\* is transcribed or translated, whatever its terminal state in the first call.
C1_IdempotentAnyTerminal ==
    SecondSkipRun => \A v \in Videos : NoCollaborator(v)

\* The terminal states that leave a final English subtitle or find one.
LeavesFinal == {MsgEnglish, MsgTranslated, MsgExists, "dropped"}

\* C1 amended: in a second skip-mode call on an unchanged library, a video
\* whose first call left a final English subtitle, or a no-speech record in
\* the sidecar, is neither transcribed nor translated and resolves through
\* the fast prefilter or the no-speech cache.
C1_IdempotentResolved ==
    SecondSkipRun =>
        \A v \in Videos :
            (prev.msg[v] \in LeavesFinal \/ prev.cached[v]) =>
                /\ NoCollaborator(v)
                /\ MsgOf(v) \in {"dropped", "none", MsgCached}
                /\ prev.msg[v] \in LeavesFinal => MsgOf(v) = "dropped"

C1_Witness ==
    /\ SecondSkipRun
    /\ pc = "returned"
    /\ \E v, w \in Videos :
         /\ prev.msg[v] = MsgNoSpeech /\ prev.cached[v] /\ MsgOf(v) = MsgCached
         /\ prev.msg[w] = MsgEnglish /\ MsgOf(w) = "dropped"

\* C2 as stated: once the cancel flag is set with k items started, no further
\* item is started, the item in flight reaches a terminal state, and
\* run_batch returns the Results of items 1..k of the filtered list, in order.
C2_Cancellation ==
    cancel =>
        /\ cancelK >= 1 => pc # "raised"
        /\ pc = "scan" => cancelK = 0
        /\ pc = "loop" => idx - 1 = cancelK
        /\ pc = "inflight" => idx = cancelK
        /\ pc = "returned" =>
             /\ Len(results) = cancelK
             /\ \A i \in 1..cancelK : results[i].video = videos[i]
        /\ \A i \in 1..Len(videos) :
             i > cancelK => NoCollaborator(videos[i]) /\ transcript[videos[i]] = TransNone

\* C3 as stated: no failure of a single item ends the batch; an exception
\* never leaves run_batch, and a call that was not cancelled ends with a
\* Result for every item of the filtered list.
C3_FailureNeverAborts ==
    /\ pc # "raised"
    /\ (pc = "returned" /\ ~cancel) => Len(results) = Len(videos)

\* C4: the sidecar never holds a partially written document: at every moment
\* it is the file that was there before the first write or one whole document
\* handed to the writer, a reader sees nothing else, and until the replace
\* step of a write the sidecar is the file the write found.
C4_AtomicSidecarWrite ==
    /\ \A v \in Videos : meta[v].kind # "partial" /\ meta[v] \in aw.docs[v]
    /\ aw.seen.v \in Videos =>
          aw.seen.f.kind # "partial" /\ aw.seen.f \in aw.docs[aw.seen.v]
    /\ aw.pc \in {"writing", "written"} => meta[aw.v] = aw.before

\* A write died half way after an earlier one went through: the temporary
\* file is cut short and a reader has the earlier document.
C4_Witness ==
    /\ aw.pc = "idle"
    /\ \E v \in Videos :
         /\ tmp[v].kind = "partial"
         /\ meta[v].kind = "doc"
         /\ meta[v] = aw.before
         /\ aw.doc # meta[v]
         /\ aw.seen = [v |-> v, f |-> meta[v]]
         /\ Cardinality(aw.docs[v]) >= 3

\* The four counters of a progress line.
Totals(s) == << s.files_done, s.files_total, s.work_done, s.work_total >>

\* C5 as stated: the run in chunks ends with the Result list and with the
\* last progress counters of the run in one call on the same input.
C5_ChunkTransparent ==
    (svc.pass = 2 /\ svc.pc = "done" /\ svc.first.pc = "done") =>
        /\ svc.results = svc.first.results
        /\ Totals(svc.printed[Len(svc.printed)]) =
              Totals(svc.first.printed[Len(svc.first.printed)])

\* C12 as stated: the service ends with a status other than zero exactly when
\* a Result it got back is not ok, and with status zero when the prefilter
\* dropped every item.
C12_StatusIffFailedResult ==
    svc.status # NoStatus =>
        /\ (svc.status # 0) = (\E i \in 1..Len(svc.results) : ~svc.results[i].ok)
        /\ svc.pc = "exit0" => svc.status = 0

\* C6 as stated: ok is false exactly for the decode failure and the
\* unmappable language.
C6_OkExactlyForFailures ==
    \A i \in 1..Len(results) :
        results[i].ok = (results[i].message \notin {MsgDecode, MsgNoMapping})

ProbeStep == (pc = "scan" /\ Len(durations') > Len(durations)) \/ (pc = "loop" /\ pc' = "inflight")
ProcessStep == pc = "inflight" /\ pc' # "inflight"
Probed(v) == calls'[v].probe > calls[v].probe

CacheMissSteps ==
    LET v == videos[idx]
    IN  /\ (ProbeStep /\ ~DataValid(v)) => Probed(v)
        /\ (ProcessStep /\ ~NsValid(v)) =>
              (Len(results') > Len(results) => results'[idx].message # MsgCached)
        /\ (ProbeStep /\ DataValid(v)) => ~Probed(v)

CachedSkipTaken(v) ==
    /\ Len(results') = Len(results) + 1
    /\ results'[idx].message = MsgCached
    /\ calls'[v] = calls[v]

\* C8 as stated: a stored signature that differs from the current one is a
\* cache miss (the probe runs again, the no-speech skip is not taken), and
\* with equal signatures the cached value is used and nothing is recomputed.
CacheUsedIffEqualStep ==
    pc \in {"scan", "loop", "inflight"} =>
        /\ CacheMissSteps
        /\ (ProcessStep /\ NsValid(videos[idx])) => CachedSkipTaken(videos[idx])

C8_CacheUsedIffSignatureEqual == [][CacheUsedIffEqualStep]_vars

\* C8 amended: a stored signature that differs from the current one is a
\* cache miss; with equal signatures get_media_data returns the cached data
\* without a probe, and in skip mode the no-speech skip is taken; in
\* overwrite mode the no-speech record is cleared and the video transcribed.
SignatureInvalidationStep ==
    pc \in {"scan", "loop", "inflight"} =>
        /\ CacheMissSteps
        /\ (ProcessStep /\ NsValid(videos[idx]) /\ mode = "skip") =>
              CachedSkipTaken(videos[idx])
        /\ (ProcessStep /\ NsValid(videos[idx]) /\ mode = "overwrite") =>
              /\ calls'[videos[idx]].whisper = calls[videos[idx]].whisper + 1
              /\ ~NsValid(videos[idx])' \/ meta'[videos[idx]] = meta[videos[idx]]

C8_SignatureInvalidation == [][SignatureInvalidationStep]_vars

C8_Witness ==
    \E v \in Videos :
        /\ sig[v] = 2
        /\ meta[v].kind = "doc"
        /\ meta[v].data.st = "dict" /\ meta[v].data.file_sig = 2
        /\ meta[v].no_speech.st = "dict" /\ meta[v].no_speech.detected
        /\ meta[v].no_speech.file_sig = 1
        /\ calls[v].probe >= 1
        /\ calls[v].whisper = 1

Silent(v) == transcript[v] \in Transcripts /\ ~has_real_text(transcript[v])

\* The first call transcribes a silent video once and ends it in the
\* no-speech terminal.
SilentFirst ==
    \A v \in Videos :
        (Silent(v) /\ MsgOf(v) # "none") =>
            MsgOf(v) = MsgNoSpeech /\ calls[v].whisper = 1

\* A skip-mode call after a skip-mode call that ended v in the no-speech
\* terminal or in the cached skip, the file of v never rewritten.
LaterSkipRun(v) ==
    /\ run >= 2
    /\ mode = "skip"
    /\ prev.mode = "skip"
    /\ prev.msg[v] \in {MsgNoSpeech, MsgCached}
    /\ ~prev.changed[v]

\* C9 as stated: the first call on a silent video transcribes it once, ends in
\* the no-speech terminal and persists the no-speech record; every later
\* skip-mode call takes the cached skip without transcription.
C9_NoSpeechAlwaysCached ==
    /\ SilentFirst
    /\ \A v \in Videos :
          (Silent(v) /\ MsgOf(v) # "none" /\ ~prev.changed[v]) => NsValid(v)
    /\ \A v \in Videos :
          LaterSkipRun(v) => calls[v].whisper = 0 /\ MsgOf(v) \in {"none", MsgCached}

\* C9 amended: the first call on a silent video transcribes it once, ends in
\* the no-speech terminal and writes the no-speech record best effort; when
\* that write succeeded and the signature has not changed, every later
\* skip-mode call takes the cached skip without transcription.
C9_NoSpeechCachedWhenWritten ==
    /\ SilentFirst
    /\ \A v \in Videos :
          (LaterSkipRun(v) /\ prev.cached[v]) =>
              /\ calls[v].whisper = 0
              /\ calls[v].nllb = 0
              /\ MsgOf(v) \in {"none", MsgCached}

C9_Witness ==
    \E v \in Videos :
        /\ LaterSkipRun(v)
        /\ prev.cached[v]
        /\ prev.msg[v] = MsgNoSpeech
        /\ MsgOf(v) = MsgCached
        /\ calls[v].whisper = 0

\* C10: a transcript with more than MAX_SUBS cues is never handed to the
\* translation collaborator nor written as the final English subtitle, and
\* the fallback file written for it is the transcript itself.
C10_SegmentGuard ==
    \A v \in Videos :
        transcript[v].nsubs > MAX_SUBS =>
            /\ calls[v].nllb = 0
            /\ final_srt[v].nsubs <= MAX_SUBS
            /\ MsgOf(v) # "none" =>
                  /\ MsgOf(v) = MsgTooMany
                  /\ source_srt[v] = Verbatim(transcript[v])

C10_Witness ==
    \E v \in Videos :
        /\ transcript[v].nsubs > MAX_SUBS
        /\ transcript[v].lang = "en"
        /\ MsgOf(v) = MsgTooMany
        /\ source_srt[v] = Verbatim(transcript[v])
        /\ final_srt[v] = OldFile

\* The rate state of a frame: the estimate and its checkpoint.
RateState(st) == << st.wps, st.cp_work, st.cp_elapsed >>

SkipSampleFed == est'.fed = est.fed + 1 /\ ~est'.last.did_work

GatedStep ==
    /\ SkipSampleFed =>
          /\ RateState(est'.pf) = RateState(est.pf)
          /\ RateState(est'.app) = RateState(est.app)
    /\ est'.real = 0 =>
          /\ est'.pf.wps = NoRate /\ est'.pf.eta = NoEta
          /\ est'.app.wps = NoRate /\ est'.app.eta = NoEta

\* C11: a sample with did_work false leaves the rate estimate and the rate
\* checkpoint of the frame as they were, and until a sample with did_work
\* true has been taken the frame has no rate and shows no ETA value.
C11_DidWorkGating == [][GatedStep]_vars

\* Skip samples came in before and after the rate was learned.
C11_Witness ==
    /\ est.fed >= 5
    /\ est.real = 2
    /\ ~est.last.did_work
    /\ est.pf.wps # NoRate
    /\ est.app.wps # NoRate
    /\ est.app.eta # NoEta

\* ------------------------------------------------------------------ C13
RECURSIVE Flatten(_)
Flatten(ss) == IF ss = << >> THEN << >> ELSE Head(ss) \o Flatten(Tail(ss))

\* The progress lines main has printed so far.
PrintedSoFar == IF svc.pc = "running" THEN svc.printed \o Printed ELSE svc.printed

\* The chunks are consecutive slices of the filtered list, each of the chunk
\* size but the last, which holds the remainder.
InOrderPartition ==
    LET n == IF svc.args.size < 1 THEN 1 ELSE svc.args.size
        k == Len(svc.chunks)
    IN  /\ Flatten(svc.chunks) = svc.videos2
        /\ \A i \in 1..(k - 1) : Len(svc.chunks[i]) = n
        /\ Len(svc.chunks[k]) \in 1..n

\* The counter starts at 0, never goes down, goes up by one at a time, and
\* the total is the filtered count on every line.
GlobalCounter ==
    LET p == PrintedSoFar
    IN  /\ \A i \in 1..Len(p) : p[i].files_total = Len(svc.videos2)
        /\ Len(p) > 0 => p[1].files_done = 0
        /\ \A i \in 1..(Len(p) - 1) :
               p[i + 1].files_done - p[i].files_done \in {0, 1}

\* C13: in a chunked run the filtered list is partitioned in order into
\* chunks of the chunk size, the last holding the remainder; files_done of
\* the printed samples goes from 0 to N one item at a time, files_total is
\* always N, and nothing resets at a chunk boundary.
C13_ChunkScheduling ==
    svc.chunked /\ svc.pc \in {"running", "done", "crashed"} =>
        /\ InOrderPartition
        /\ GlobalCounter
        /\ svc.pc \in {"done", "crashed"} =>
               /\ Len(svc.printed) > 0
               /\ svc.printed[Len(svc.printed)].files_done = Len(svc.videos2)

\* ------------------------------------------------------------------ C14
\* The item the call is at.
Current(v) == pc \in {"scan", "loop", "inflight"} /\ idx <= Len(videos) /\ videos[idx] = v

\* What one step may do to the sidecar of v when it holds a document: the
\* scan names scan, library_relpath and data, and media_id when none is
\* stored; the processing after the prelude names no_speech and subtitle.
FrameOf(v) ==
    LET old == meta[v]
        new == meta'[v]
    IN  old.kind = "doc" =>
            /\ new.kind = "doc"
            /\ ~Current(v) => new = old
            /\ old.media_id # 0 => new.media_id = old.media_id
            /\ pc # "inflight" =>
                   /\ new.no_speech = old.no_speech
                   /\ new.subtitle = old.subtitle
            /\ pc = "inflight" =>
                   /\ new.media_id = old.media_id
                   /\ new.library_relpath = old.library_relpath
                   /\ new.scan = old.scan
                   /\ new.data = old.data
                   /\ new.subtitle # old.subtitle =>
                          new.subtitle.st = "dict" /\ new.subtitle.existing_srt_mode = mode
                   /\ (old.no_speech.st = "dict" /\ new.no_speech.st = "dict"
                          /\ ~new.no_speech.detected /\ mode = "skip") =>
                          new.no_speech.whisper_model = old.no_speech.whisper_model

FrameStep == \A v \in Videos : FrameOf(v)

\* C14: a sidecar is changed by merge-patch only: a step leaves every field
\* its patches do not name as an earlier run or step wrote it, and clearing
\* no_speech in overwrite mode leaves media_id, scan, library_relpath,
\* subtitle and data as they were.
C14_MergePatchOnly == [][FrameStep]_vars

\* An overwrite call cleared no_speech and wrote no subtitle record: the
\* subtitle record of the earlier skip call and the other fields are there.
C14_Witness ==
    \E v \in Videos :
        /\ mode = "overwrite"
        /\ pc = "returned"
        /\ meta[v].kind = "doc"
        /\ meta[v].no_speech = NsNull
        /\ meta[v].media_id # 0
        /\ meta[v].scan.st = "dict"
        /\ meta[v].data.st = "dict"
        /\ meta[v].library_relpath # 0
        /\ meta[v].subtitle.st = "dict"
        /\ meta[v].subtitle.existing_srt_mode = "skip"

\* ------------------------------------------------------------------ C15
\* o is d with s merged in, as the merge semantics read: a key s lacks is
\* kept, a map over a map is merged key by key, any other value of s replaces.
RECURSIVE IsMergeOf(_, _, _)
IsMergeOf(d, s, o) ==
    /\ DOMAIN o = DOMAIN d \cup DOMAIN s
    /\ \A k \in DOMAIN o :
          IF k \notin DOMAIN s THEN o[k] = d[k]
          ELSE IF IsMap(s[k]) /\ k \in DOMAIN d /\ IsMap(d[k])
               THEN IsMap(o[k]) /\ IsMergeOf(d[k].m, s[k].m, o[k].m)
               ELSE o[k] = s[k]

\* C15: _deep_merge merges a map into a map key by key, lets any other value
\* of the patch replace the destination, keeps the keys the patch lacks, and
\* gives the same document when the same patch is merged a second time.
C15_DeepMerge ==
    mt.pc = "merged" =>
        /\ IsMergeOf(mt.dst, mt.src, mt.once)
        /\ mt.twice = mt.once

\* A merge where one key is merged map into map, with an inner key kept
\* and an inner key replaced, and the other key is cleared by null over a map.
C15_Witness ==
    /\ mt.pc = "merged"
    /\ DOMAIN mt.dst = Keys
    /\ DOMAIN mt.src = Keys
    /\ IsMap(mt.dst["a"]) /\ IsMap(mt.src["a"])
    /\ DOMAIN mt.dst["a"].m = Keys
    /\ DOMAIN mt.src["a"].m = {"b"}
    /\ mt.src["a"].m["b"] # mt.dst["a"].m["b"]
    /\ mt.once["a"].m["a"] = mt.dst["a"].m["a"]
    /\ mt.once["a"].m["b"] = mt.src["a"].m["b"]
    /\ IsMap(mt.dst["b"])
    /\ mt.src["b"].v = "null"
    /\ mt.once["b"].v = "null"

\* ------------------------------------------------------------------ C16
\* A step leaves every persisted media_id in its sidecar.
MediaIdKept ==
    \A v \in Videos :
        (meta[v].kind = "doc" /\ meta[v].media_id # 0) =>
            (meta'[v].kind = "doc" /\ meta'[v].media_id = meta[v].media_id)

\* C16: once a media_id is persisted in the sidecar of an item, no scan, no
\* processing in skip or overwrite mode, no failed cache write and no
\* cancellation changes it or puts another one in its place.
C16_MediaIdStable == [][MediaIdKept]_vars

\* The id an earlier run persisted is there after a cancelled overwrite call
\* that cleared no_speech and wrote to the sidecar.
C16_Witness ==
    \E v \in Videos :
        /\ pc = "returned"
        /\ cancel
        /\ mode = "overwrite"
        /\ Len(results) >= 1
        /\ meta[v].kind = "doc"
        /\ meta[v].media_id = 7
        /\ meta[v].no_speech # OldNs(1)
        /\ meta[v].scan.last_seen_utc # 1

\* ------------------------------------------------------------------ C17
\* What the caller and the disk get from one item: the exception or the
\* Result, and the two subtitle files.
OutcomeOf(o) == [exc |-> o.exc, ok |-> o.res.ok, message |-> o.res.message,
                 fin |-> o.fin, src |-> o.src]

\* Lines 636-649 for the item v whose sidecar holds f: wf1 fails the writes
\* up to line 369, wf2 the writes after it.
ItemOutcome(f, v, pr, t, raises, wf1, wf2) ==
    OutcomeOf(ProcessFrom(ProcessPrelude(_set_scan_fields(f, wf1), v, pr, wf1).f,
                          v, t, raises, wf2))

\* C17: a sidecar write that fails, in the scan phase or in
\* process_one_video, is swallowed: the duration the scan records, the
\* Result of the item and its subtitle files are those of the same step with
\* every write succeeding, and no exception comes of it.
C17_WritesBestEffort ==
    /\ (pc = "scan" /\ idx <= Len(videos)) =>
           \A pr \in env[videos[idx]].probe :
               ScanWrites(meta[videos[idx]], videos[idx], pr, TRUE).dur
                   = ScanWrites(meta[videos[idx]], videos[idx], pr, FALSE).dur
    /\ pc = "loop" =>
           \A pr \in env[videos[idx]].probe, t \in env[videos[idx]].trans,
              raises \in env[videos[idx]].raises, wf1 \in BOOLEAN, wf2 \in BOOLEAN :
               ItemOutcome(meta[videos[idx]], videos[idx], pr, t, raises, wf1, wf2)
                   = ItemOutcome(meta[videos[idx]], videos[idx], pr, t, raises, FALSE, FALSE)

\* The writes of a translated item failed, its Result and its subtitle are
\* there, and the call went on to the next item.
C17_Witness ==
    \E i \in 1..(Len(results) - 1) :
        /\ results[i].message = MsgTranslated
        /\ final_srt[videos[i]].translated
        /\ meta[videos[i]].kind = "absent"

\* ------------------------------------------------------------------ C18
Unreadable(f) == f.kind \in {"absent", "empty", "corrupt", "nonmap"}

\* Every reader gives on f what it gives on the document {}.
ReadsAsEmpty(f, v) ==
    /\ _ensure_media_id(f, FALSE) = _ensure_media_id(EmptyDoc, FALSE)
    /\ _set_scan_fields(f, FALSE) = _set_scan_fields(EmptyDoc, FALSE)
    /\ NoSpeechCached(f, v) = NoSpeechCached(EmptyDoc, v)
    /\ \A pr \in env[v].probe :
          LET a == get_media_data(f, v, pr, FALSE)
              b == get_media_data(EmptyDoc, v, pr, FALSE)
          IN  /\ a.probes = b.probes
              /\ a.ok = b.ok
              /\ a.duration_s = b.duration_s
              /\ pr # -1 => a.f = b.f
    /\ \A pr \in env[v].probe, t \in env[v].trans, raises \in env[v].raises,
          wf1 \in BOOLEAN, wf2 \in BOOLEAN :
          ItemOutcome(f, v, pr, t, raises, wf1, wf2)
              = ItemOutcome(EmptyDoc, v, pr, t, raises, wf1, wf2)

\* C18: a sidecar that is missing, empty, no valid JSON, or valid JSON that
\* is no map is read as an empty record by _ensure_media_id,
\* _set_scan_fields, get_media_data and the no-speech check, and the item is
\* processed as with an empty record, no error coming of it.
C18_CorruptionNeverFatal ==
    \A v \in Videos :
        (Unreadable(meta[v]) /\ pc \in {"scan", "loop"} /\ videos[idx] = v) =>
            ReadsAsEmpty(meta[v], v)

\* A skip call went through an item whose sidecar is JSON that is no map and
\* could not be written: the item was translated, not skipped as cached.
C18_Witness ==
    \E i \in 1..Len(results) :
        /\ mode = "skip"
        /\ meta[videos[i]].kind = "nonmap"
        /\ results[i].message = MsgTranslated

\* ------------------------------------------------------------------ C19
\* A call starts: in skip mode the videos with an English subtitle leave the
\* list and the others stay, in overwrite mode the list is the caller's.
StartFilters ==
    IF mode' = "skip"
    THEN \A v \in Videos :
            (final_srt[v].kind # "none") = ~(\E i \in 1..Len(videos') : videos'[i] = v)
    ELSE videos' = AllVideos

\* A step inside a call: a video outside the list is not probed, transcribed
\* or translated, and its sidecar is not written.
DroppedUntouched ==
    \A v \in Videos :
        ~InVideos(v) =>
            /\ calls'[v] = NoCalls
            /\ meta'[v] = meta[v]
            /\ tmp'[v] = tmp[v]

PrefilterStep == IF run' # run THEN StartFilters ELSE DroppedUntouched

\* C19: in skip mode run_batch makes no probe, transcription or translation
\* call and no sidecar write for an item whose English subtitle exists when
\* the call starts; in overwrite mode the prefilter drops no item.
C19_FastPrefilter == [][PrefilterStep]_vars

\* A skip call ended having processed a video, and the video whose subtitle
\* existed at the start was left out: no call, its sidecar as the earlier run
\* left it.
C19_Witness ==
    \E v \in Videos :
        /\ mode = "skip"
        /\ pc = "returned"
        /\ Len(results) >= 1
        /\ final_srt[v] = OldFile
        /\ ~InVideos(v)
        /\ calls[v] = NoCalls
        /\ meta[v] = OldDoc(NsAbsent, OldData(1))

\* ------------------------------------------------------------------ C20
\* The transcript of v in this call has text, is within the ceiling and is
\* English.
EnglishDecision(v) ==
    /\ transcript[v].lang = "en"
    /\ transcript[v].nsubs \in 1..MAX_SUBS

\* C20: for an English transcript with text and within the cue ceiling the
\* translation collaborator is not invoked and transcription is invoked once;
\* in mode 'all' the transcript is the final English subtitle and the Result
\* is the success 'english srt written'; in translate-only mode no English
\* subtitle is written, a stale one is deleted in overwrite mode only, and
\* the Result is a success skip.
C20_EnglishDecision ==
    \A v \in Videos :
        EnglishDecision(v) =>
            /\ calls[v].nllb = 0
            /\ calls[v].whisper = 1
            /\ eom = "all" =>
                  /\ final_srt[v] = Verbatim(transcript[v])
                  /\ \E i \in 1..Len(results) :
                        /\ results[i] = Result(TRUE, MsgEnglish, v)
                        /\ _did_work_from_result(results[i])
            /\ eom = "non_english_only" =>
                  /\ final_srt[v] = NoFile
                  /\ \E i \in 1..Len(results) :
                        /\ results[i] = Result(TRUE, MsgEnglishOnly, v)
                        /\ ~_did_work_from_result(results[i])

\* ------------------------------------------------------------------ C21
\* The transcript of v in this call has text, is within the ceiling, is not
\* English and its language has no entry in WHISPER_TO_NLLB.
Unmappable(v) ==
    /\ transcript[v].lang \notin {"", "err", "en"}
    /\ transcript[v].nsubs \in 1..MAX_SUBS
    /\ WHISPER_TO_NLLB(transcript[v].lang) = ""

\* C21: for a transcript in a language without mapping the fallback source
\* file is the transcript verbatim, translation is not invoked, no final
\* English subtitle is written by the call, the Result has ok = false, and
\* the call goes on with the items after it.
C21_UnmappableLanguage ==
    \A v \in Videos :
        Unmappable(v) =>
            /\ calls[v].nllb = 0
            /\ source_srt[v] = Verbatim(transcript[v])
            /\ final_srt[v].kind \in {"none", "old"}
            /\ \E i \in 1..Len(results) : results[i] = Result(FALSE, MsgNoMapping, v)
            /\ ~(pc = "raised" /\ videos[idx] = v)
            /\ (pc = "returned" /\ ~cancel) => Len(results) = Len(videos)

\* ------------------------------------------------------------------ C22
\* A collaborator ran for v in this call.
CollaboratorRan(v) == calls[v].whisper > 0 \/ calls[v].nllb > 0

\* C22: the post sample of an item carries did_work = true exactly when the
\* transcription or translation collaborator ran for the item, false for the
\* free skips; every pre sample carries did_work = false.
C22_DidWorkClassification ==
    /\ \A i \in 1..Len(results) :
          /\ 2 * i <= Len(samples)
          /\ samples[2 * i].did_work = CollaboratorRan(results[i].video)
    /\ \A k \in 1..Len(samples) : k % 2 = 1 => ~samples[k].did_work

\* ------------------------------------------------------------------ C23
\* A sample has just updated the rate of the frame: the work delta it used,
\* from the checkpoint of the frame to the sample.
RateUpdated(old, new) == est'.fed = est.fed + 1 /\ new.wps # old.wps

WorkDelta(old) == est'.last.work_done - old.cp_work

OnlyRealWorkStep ==
    /\ RateUpdated(est.pf, est'.pf) => WorkDelta(est.pf) = est'.rwork - est.pf_rw
    /\ RateUpdated(est.app, est'.app) => WorkDelta(est.app) = est'.rwork - est.app_rw

\* C23: at every rate update the work delta holds only the durations of the
\* items whose post sample had did_work since the last checkpoint; the
\* durations of the items skipped in between are not in it.
C23_SkipsNotInWorkDelta == [][OnlyRealWorkStep]_vars

\* ------------------------------------------------------------------ C24
\* C24: over the progress lines of a run in chunks work_total is one value,
\* the summed duration of all the filtered items, work_done never goes down,
\* and the last line has work_done = work_total.
C24_GlobalWorkAccumulator ==
    svc.chunked =>
        /\ \A i, j \in 1..Len(PrintedSoFar) :
              i < j => /\ PrintedSoFar[i].work_total = PrintedSoFar[j].work_total
                       /\ PrintedSoFar[i].work_done <= PrintedSoFar[j].work_done
        /\ svc.pc = "done" =>
              /\ svc.printed[Len(svc.printed)].work_total = ToInt(svc.work_all)
              /\ svc.printed[Len(svc.printed)].work_done = ToInt(svc.work_all)

\* ------------------------------------------------------------------ C25
\* The sidecar of v holds a subtitle record written by this call: no earlier
\* run has left one in these libraries.
HasSubtitleRecord(v) ==
    /\ DocOf(meta[v]).subtitle.st = "dict"
    /\ DocOf(meta[v]).subtitle.existing_srt_mode = mode
    /\ DocOf(meta[v]).subtitle.english_output_mode = eom

\* Every write to the sidecar of v goes through.
WritesGoThrough(v) == env[v].wfail = {FALSE}

\* C25: every terminal of process_one_video other than the two cache hits
\* leaves a subtitle record of the run in the sidecar, the decode failure,
\* the first no-speech detection and the segment overflow among them.
C25_MetaUpdateOnEveryTerminal ==
    \A i \in 1..Len(results) :
        (/\ WritesGoThrough(results[i].video)
         /\ results[i].message \notin {MsgCached, MsgExists}) =>
            HasSubtitleRecord(results[i].video)

\* ------------------------------------------------------------------ C26
\* The sidecar of v holds a no-speech record, technical data, of the current
\* signature.
NsHit(v) ==
    /\ DocOf(meta[v]).no_speech.st = "dict"
    /\ DocOf(meta[v]).no_speech.detected
    /\ DocOf(meta[v]).no_speech.file_sig = sig[v]

DataHit(v) == DocOf(meta[v]).data.st = "dict" /\ DocOf(meta[v]).data.file_sig = sig[v]

\* process_one_video is entered for the current item, which has the record.
EntersCached == pc = "loop" /\ pc' = "inflight" /\ mode = "skip" /\ NsHit(videos[idx])

\* process_one_video goes on from the cache check for that item.
LeavesCached == pc = "inflight" /\ pc' # "inflight" /\ mode = "skip" /\ NsHit(videos[idx])

CachedSkipResult ==
    /\ results' = Append(results, Result(TRUE, MsgCached, videos[idx]))
    /\ calls'[videos[idx]].whisper = 0
    /\ calls'[videos[idx]].nllb = 0

NoCallAtAllStep ==
    /\ EntersCached => calls' = calls
    /\ LeavesCached => calls' = calls /\ CachedSkipResult

\* C26 as stated: the cached no-speech skip invokes no collaborator, the
\* probe no more than the others, whatever the technical data in the
\* sidecar.
C26_NoCollaboratorCall == [][NoCallAtAllStep]_vars

ProbeOnlyOnDataMissStep ==
    /\ EntersCached =>
          /\ calls'[videos[idx]].whisper = calls[videos[idx]].whisper
          /\ calls'[videos[idx]].nllb = calls[videos[idx]].nllb
          /\ calls'[videos[idx]].probe =
                calls[videos[idx]].probe + (IF DataHit(videos[idx]) THEN 0 ELSE 1)
    /\ LeavesCached => calls' = calls /\ CachedSkipResult

\* C26: in skip mode, when the sidecar holds no_speech.detected = true with
\* the current signature, process_one_video returns the cached-skip Result
\* without invoking transcription or translation; the probe is invoked once,
\* before the cache check, exactly when the sidecar holds no technical data
\* of the current signature.
C26_CachedSkipProbesOnDataMiss == [][ProbeOnlyOnDataMissStep]_vars

\* A cached skip of a video that was never transcribed and that the probe
\* was run for three times: twice in the scan, once more on entry of
\* process_one_video.
C26_Witness ==
    \E i \in 1..Len(results) :
        /\ results[i] = Result(TRUE, MsgCached, results[i].video)
        /\ calls[results[i].video] = [whisper |-> 0, nllb |-> 0, probe |-> 3]
        /\ ~DataHit(results[i].video)

\* ------------------------------------------------------------------ C27
\* process_one_video returns a Result for the current item.
ItemReturns == pc = "inflight" /\ Len(results') = Len(results) + 1

LastMessage == results'[Len(results')].message

NoSpeechOf(f) == DocOf(f).no_speech

\* A skip-mode call after an overwrite call in which v could not be decoded.
SkipAfterFailedOverwrite(v) ==
    run >= 2 /\ mode = "skip" /\ prev.mode = "overwrite" /\ prev.msg[v] = MsgDecode

\* Skip mode touches neither the fallback file nor no_speech up to the
\* checks of lines 376-397.
SkipModeTouchesNothing ==
    LET v == videos[idx]
    IN  /\ (mode = "skip" /\ pc = "loop" /\ pc' = "inflight") =>
              /\ source_srt' = source_srt
              /\ NoSpeechOf(meta'[v]) = NoSpeechOf(meta[v])
        /\ (mode = "skip" /\ ItemReturns /\ LastMessage \in {MsgCached, MsgExists}) =>
              /\ source_srt' = source_srt
              /\ NoSpeechOf(meta'[v]) = NoSpeechOf(meta[v])

ResetAlwaysClearsStep ==
    LET v == videos[idx]
    IN  /\ (mode = "overwrite" /\ ItemReturns) => LastMessage # MsgCached
        /\ (mode = "overwrite" /\ ItemReturns /\ LastMessage = MsgDecode) =>
              /\ calls'[v].whisper = calls[v].whisper + 1
              /\ source_srt'[v] = NoFile
              /\ NoSpeechOf(meta'[v]) = NsNull
        /\ (SkipAfterFailedOverwrite(v) /\ ItemReturns) => LastMessage # MsgCached
        /\ SkipModeTouchesNothing

\* C27 as stated: in overwrite mode the fallback file is deleted and
\* no_speech cleared before transcription, so that a cached no_speech causes
\* no skip in that call nor, when transcription fails, in a later skip-mode
\* call; skip mode touches neither before the checks.
C27_OverwriteResetClears == [][ResetAlwaysClearsStep]_vars

ResetBestEffortStep ==
    LET v == videos[idx]
    IN  /\ (mode = "overwrite" /\ ItemReturns) => LastMessage # MsgCached
        /\ (mode = "overwrite" /\ ItemReturns /\ LastMessage = MsgDecode) =>
              /\ calls'[v].whisper = calls[v].whisper + 1
              /\ source_srt'[v] = NoFile
              /\ NoSpeechOf(meta'[v]) \in {NsNull, NoSpeechOf(meta[v])}
        /\ (SkipAfterFailedOverwrite(v) /\ ItemReturns /\ LastMessage = MsgCached) =>
              prev.cached[v]
        /\ (SkipAfterFailedOverwrite(v) /\ ItemReturns /\ ~prev.cached[v]) =>
              calls'[v].whisper = 1
        /\ SkipModeTouchesNothing

\* C27: in overwrite mode the fallback file of the item is deleted before
\* transcription and no_speech is cleared on a best-effort basis: the cached
\* record causes no skip in that call, and when transcription then fails a
\* later skip-mode call transcribes the item again unless the clearing write
\* failed and left the record; skip mode touches neither before the checks.
C27_OverwriteResetBestEffort == [][ResetBestEffortStep]_vars

\* The overwrite call cleared the record and removed the fallback file, the
\* decode failed, and the skip-mode call after it transcribed the video again.
C27_Witness ==
    \E v \in Videos :
        /\ SkipAfterFailedOverwrite(v)
        /\ ~prev.cached[v]
        /\ env[v] = RerunEnv
        /\ calls[v].whisper = 1
        /\ source_srt[v] = NoFile
        /\ MsgOf(v) = MsgDecode

\* ------------------------------------------------------------------ C28
\* The probe of v fails at every call and the sidecar holds no data for it.
ProbeFails(v) == env[v].probe = {-1}

ScanDone == Len(durations) = Len(videos)

\* C28: no transcription or translation is invoked before the scan has
\* visited every filtered item; every progress sample of the call reports
\* the same work_total, the sum of the scanned durations; an item whose probe
\* failed counts 0 in it and is processed all the same.
C28_ScanBeforeWork ==
    /\ (\E v \in Videos : CollaboratorRan(v)) => ScanDone /\ pc # "scan"
    /\ samples # << >> => ScanDone
    /\ \A k \in 1..Len(samples) :
          samples[k].work_total = ToInt(SumTo(durations, Len(durations)))
    /\ \A i \in 1..Len(durations) : ProbeFails(videos[i]) => durations[i] = 0
    /\ (pc = "returned" /\ ~cancel) =>
          \A i \in 1..Len(videos) :
              ProbeFails(videos[i]) =>
                  /\ i <= Len(results) /\ results[i].video = videos[i]
                  /\ calls[videos[i]].whisper = 1

\* A call that ended: a video whose probe failed was transcribed and has its
\* Result, another one brought work, and every sample reports that total.
C28_Witness ==
    /\ pc = "returned" /\ ~cancel
    /\ Len(samples) >= 4
    /\ samples[1].work_total >= 1
    /\ \E i, j \in 1..Len(videos) :
          /\ ProbeFails(videos[i]) /\ durations[i] = 0
          /\ results[i] = Result(FALSE, MsgDecode, videos[i])
          /\ durations[j] > 0
          /\ calls[videos[j]].whisper = 1

\* ------------------------------------------------------------------ C29
\* run_batch is running; it has ended, by return or by an exception.
Running == pc \in {"scan", "loop", "inflight"}
Ended == pc \in {"returned", "raised"}

\* The items process_one_video was called for: one pre sample each.
StartedItems == Cardinality({k \in 1..Len(samples) : k % 2 = 1})

\* What run_batch hands back when it returns.
ReturnAccounted ==
    pc = "returned" =>
        /\ Len(results) = StartedItems
        /\ \A i \in 1..Len(results) : results[i].video = videos[i]
        /\ ~cancel =>
              /\ Len(results) = Len(videos)
              /\ samples # << >> =>
                    samples[Len(samples)].files_done = samples[Len(samples)].files_total

\* C29: when every collaborator call comes back run_batch ends; when it
\* returns, every item it started has exactly one Result, and when the
\* cancellation was never signalled every filtered item has a Result and the
\* last progress sample has files_done = files_total.
C29_Termination == (Running ~> Ended) /\ []ReturnAccounted

\* The call returned, not cancelled, with a Result for each of its items.
C29_Witness ==
    /\ pc = "returned" /\ ~cancel
    /\ Len(videos) = NumVideos
    /\ Len(results) = NumVideos
    /\ samples[Len(samples)].files_done = NumVideos

\* ------------------------------------------------------------------ C30
\* C30: in the chunked path of the service, once the cancellation has been
\* signalled no further chunk is started and the Results of the chunks
\* processed so far are returned: main goes on to its end and hands back
\* what the chunks that ran have appended.
C30_CancelBetweenChunks ==
    (svc.chunked /\ cancel) =>
        /\ svc.pc \in {"running", "done"}
        /\ svc.pc = "done" => svc.status = ExitStatus(svc.results)

\* ------------------------------------------------- src/nllb_translate.py
\* A cue of the parsed transcript: id stands for its index and timings,
\* tokens for len(tokenizer.tokenize(content)).
CueKinds == { [content |-> "", tokens |-> 0], [content |-> " ", tokens |-> 0],
              [content |-> "a", tokens |-> 1], [content |-> "b", tokens |-> 2],
              [content |-> "c", tokens |-> 3] }

\* list(srt.parse(srt_text)), line 73.
CueLists ==
    UNION { { [k \in 1..n |-> [id |-> k, content |-> f[k].content, tokens |-> f[k].tokens]] :
              f \in [1..n -> CueKinds] } : n \in 0..MaxCues }

\* not line.strip()
Blank(text) == text \in {"", " "}

\* What the model gives back for the joined lines of a batch: as many lines
\* with the blank ones still blank, as many lines with text on every one, or
\* another number of lines.
Replies == {"lines", "text", "other"}

\* _translate_text, lines 43-70, on one line.
translate_text(text) == IF Blank(text) THEN "" ELSE "T"

\* _translate_batch, lines 97-123.
translate_batch(subs, reply) ==
    LET n == Len(subs)
        lines == [k \in 1..n |-> subs[k].content]
        translated ==
            IF reply = "other"
            THEN [k \in 1..n |-> translate_text(lines[k])]
            ELSE [k \in 1..n |-> IF Blank(lines[k]) /\ reply = "lines" THEN "" ELSE "T"]
    IN  IF \A k \in 1..n : Blank(lines[k])
        THEN subs
        ELSE [k \in 1..n |-> [subs[k] EXCEPT !.content = translated[k]]]

\* Mutant: the batch is closed one token late.
MustFlushLate(current, current_tokens, token_count, max_tokens) ==
    current # << >> /\ current_tokens + token_count > max_tokens + 1

\* translate_srt, line 84.
MustFlush(current, current_tokens, token_count, max_tokens) ==
    current # << >> /\ current_tokens + token_count > max_tokens

\* translate_srt is called, lines 72-80.
TrCall(subs, max_tokens) ==
    /\ tr.pc = "idle"
    /\ tr' = [TrIdle EXCEPT !.pc = "loop", !.subs = subs, !.max_tokens = max_tokens]
    /\ UNCHANGED << sig, final_srt, source_srt, meta, tmp, run, pc, idx, mode, eom, videos,
                    durations, results, samples, cancel, cancelK, calls, transcript, prev,
                    env, budget, svc, aw, est, mt, ui, px >>

\* One turn of the loop of lines 80-90.
TrCue(reply) ==
    /\ tr.pc = "loop"
    /\ tr.i <= Len(tr.subs)
    /\ LET sub == tr.subs[tr.i]
           token_count == sub.tokens
       IN  IF MustFlush(tr.current, tr.current_tokens, token_count, tr.max_tokens)
           THEN tr' = [tr EXCEPT !.out = @ \o translate_batch(tr.current, reply),
                                 !.batches = Append(@, tr.current),
                                 !.current = << sub >>,
                                 !.current_tokens = token_count,
                                 !.i = @ + 1]
           ELSE tr' = [tr EXCEPT !.current = Append(@, sub),
                                 !.current_tokens = @ + token_count,
                                 !.i = @ + 1]
    /\ UNCHANGED << sig, final_srt, source_srt, meta, tmp, run, pc, idx, mode, eom, videos,
                    durations, results, samples, cancel, cancelK, calls, transcript, prev,
                    env, budget, svc, aw, est, mt, ui, px >>

\* Lines 92-95: the last batch, then out goes to srt.compose.
TrReturn(reply) ==
    /\ tr.pc = "loop"
    /\ tr.i > Len(tr.subs)
    /\ IF tr.current # << >>
       THEN tr' = [tr EXCEPT !.pc = "done",
                             !.out = @ \o translate_batch(tr.current, reply),
                             !.batches = Append(@, tr.current),
                             !.current = << >>,
                             !.current_tokens = 0]
       ELSE tr' = [tr EXCEPT !.pc = "done"]
    /\ UNCHANGED << sig, final_srt, source_srt, meta, tmp, run, pc, idx, mode, eom, videos,
                    durations, results, samples, cancel, cancelK, calls, transcript, prev,
                    env, budget, svc, aw, est, mt, ui, px >>

InitTranslate == InitMerge

NextTranslate ==
    \/ tr.pc = "idle" /\ \E subs \in CueLists, max_tokens \in 1..MaxTokens :
                             TrCall(subs, max_tokens)
    \/ \E reply \in Replies : TrCue(reply)
    \/ \E reply \in Replies : TrReturn(reply)

SpecTranslate == InitTranslate /\ [][NextTranslate]_vars

\* ------------------------------------------------------------------ C32
RECURSIVE TokensOf(_)
TokensOf(batch) == IF batch = << >> THEN 0 ELSE Head(batch).tokens + TokensOf(Tail(batch))

\* The batches closed so far and the one being filled are the cues read so
\* far, each once and in their order.
BatchesPartition ==
    tr.pc # "idle" =>
        /\ Flatten(tr.batches) \o tr.current = SubSeq(tr.subs, 1, tr.i - 1)
        /\ \A b \in 1..Len(tr.batches) : tr.batches[b] # << >>

\* C32 as stated: every cue is in exactly one batch, in order, and every batch
\* handed to the translation call holds at most max_tokens tokens.
C32_BatchesWithinBudget ==
    /\ BatchesPartition
    /\ \A b \in 1..Len(tr.batches) : TokensOf(tr.batches[b]) <= tr.max_tokens

\* C32: every cue is in exactly one batch, in order, and a batch handed to the
\* translation call holds at most max_tokens tokens unless it is one cue that
\* alone holds more.
C32_BatchesWithinBudgetOrSingle ==
    /\ BatchesPartition
    /\ \A b \in 1..Len(tr.batches) :
           TokensOf(tr.batches[b]) <= tr.max_tokens \/ Len(tr.batches[b]) = 1

C32_Witness ==
    /\ tr.pc = "done"
    /\ Len(tr.subs) = MaxCues
    /\ Len(tr.batches) = 2
    /\ \E b \in 1..2 : Len(tr.batches[b]) = 2 /\ TokensOf(tr.batches[b]) = tr.max_tokens
    /\ \E b \in 1..2 : Len(tr.batches[b]) = 1 /\ TokensOf(tr.batches[b]) > tr.max_tokens

\* ------------------------------------------------------------------ C33
\* C33: translate_srt hands srt.compose as many cues as it parsed, in the same
\* order with the same timings, and every cue whose content is empty or
\* whitespace-only has its content unchanged.
C33_OutputShape ==
    tr.pc = "done" =>
        /\ Len(tr.out) = Len(tr.subs)
        /\ \A k \in 1..Len(tr.out) :
               /\ tr.out[k].id = tr.subs[k].id
               /\ Blank(tr.subs[k].content) => tr.out[k].content = tr.subs[k].content

\* ------------------------------------------------------------------ C34
\* C34: once a progress sample has been handed to the frames, whatever its
\* did_work and files_done, the work display of each frame shows the work_done
\* and work_total of the last sample handed over.
C34_WorkDisplayEverySample ==
    est.fed > 0 =>
        /\ est.pf.shown = << est.last.work_done, est.last.work_total >>
        /\ est.app.shown = << est.last.work_done, est.last.work_total >>

\* ------------------------------------------------------------------ C35
\* The samples of the call so far are pairs, one per Result: the sample before
\* the item, then the sample after it with one more file done; a last sample
\* without its pair belongs to the item in flight.
SamplesPaired ==
    /\ Len(samples) \in {2 * Len(results), 2 * Len(results) + 1}
    /\ \A i \in 1..Len(results) :
           /\ samples[2 * i - 1].files_done = i - 1
           /\ samples[2 * i].files_done = samples[2 * i - 1].files_done + 1

\* C35: every progress sample of a run_batch call has 0 <= files_done <=
\* files_total and 0 <= work_done <= work_total; each processed item gives one
\* sample before it and one after it whose files_done is one more; files_done
\* and work_done never decrease along the stream.
C35_SampleStream ==
    /\ \A k \in 1..Len(samples) :
           /\ 0 <= samples[k].files_done /\ samples[k].files_done <= samples[k].files_total
           /\ 0 <= samples[k].work_done /\ samples[k].work_done <= samples[k].work_total
    /\ SamplesPaired
    /\ \A k \in 1..(Len(samples) - 1) :
           /\ samples[k].files_done <= samples[k + 1].files_done
           /\ samples[k].work_done <= samples[k + 1].work_done

C35_Witness ==
    /\ pc = "returned"
    /\ Len(results) = NumVideos
    /\ Len(samples) = 2 * NumVideos
    /\ samples[2].work_done > 0
    /\ samples[2].work_done < samples[2 * NumVideos].work_done
    /\ \E k \in 1..Len(samples) : samples[k].did_work

\* ------------------------------------------------------------------ C37
NoStaleFinalStep ==
    LET v == videos[idx]
    IN  (mode = "overwrite" /\ ItemReturns /\ final_srt'[v].kind # "none") =>
            LastMessage \in {MsgEnglish, MsgTranslated}

\* C37 as stated: in overwrite mode, when process_one_video returns, a final
\* subtitle present for the item was written by that invocation, whatever the
\* terminal state.
C37_NoStaleFinal == [][NoStaleFinalStep]_vars

FinalPerTerminalStep ==
    LET v == videos[idx]
    IN  (mode = "overwrite" /\ ItemReturns) =>
            /\ LastMessage \in {MsgDecode, MsgNoSpeech, MsgTooMany, MsgNoMapping,
                                MsgEnglishOnly, MsgEnglish, MsgTranslated}
            /\ LastMessage = MsgEnglish => final_srt'[v] = Verbatim(transcript'[v])
            /\ LastMessage = MsgTranslated => final_srt'[v] = translate_srt(transcript'[v])
            /\ LastMessage = MsgEnglishOnly => final_srt'[v] = NoFile
            /\ LastMessage \in {MsgDecode, MsgNoSpeech, MsgTooMany, MsgNoMapping} =>
                   final_srt'[v] = final_srt[v]

\* C37: in overwrite mode, when process_one_video returns, the final subtitle
\* of the item is the one that invocation wrote after the English and the
\* translated terminals, is absent after the translate-only English terminal,
\* and is whatever was there before after a decode failure, no speech, a
\* segment overflow and an unmappable language.
C37_FinalPerTerminal == [][FinalPerTerminalStep]_vars

C37_Witness ==
    /\ pc = "returned"
    /\ mode = "overwrite"
    /\ \E i \in 1..Len(results) :
           /\ results[i].message \in {MsgDecode, MsgNoSpeech, MsgTooMany, MsgNoMapping}
           /\ final_srt[videos[i]] = OldFile
    /\ \E i \in 1..Len(results) :
           /\ results[i].message = MsgEnglishOnly
           /\ final_srt[videos[i]] = NoFile

\* ------------------------------------------------------------ output paths
\* Two of VIDEO_EXTS (line 18).
VideoExts == {".mkv", ".mp4"}

\* A video path: its folder, the stem and the suffix of its file name.
VideoPaths == [dir : 1..MaxDirs, stem : 1..MaxStems, suffix : VideoExts]

\* _meta_path: the whole name followed by ".meta.json".
meta_path(video_path) ==
    [dir |-> video_path.dir, name |-> << video_path.stem, video_path.suffix, ".meta.json" >>]

\* Lines 371 and 125: out_dir / f"{base_name}.en.srt".
final_srt_path(video_path) ==
    [dir |-> video_path.dir, name |-> << video_path.stem, ".en.srt" >>]

\* Line 372: out_dir / f"{base_name}.source.srt".
fallback_source_srt_path(video_path) ==
    [dir |-> video_path.dir, name |-> << video_path.stem, ".source.srt" >>]

\* run_batch is called on two distinct video paths.
PathsCall(a, b) ==
    /\ px.pc = "idle"
    /\ a # b
    /\ px' = [PxIdle EXCEPT !.pc = "run", !.vids = << a, b >>]
    /\ UNCHANGED << sig, final_srt, source_srt, meta, tmp, run, pc, idx, mode, eom, videos,
                    durations, results, samples, cancel, cancelK, calls, transcript, prev,
                    env, budget, svc, aw, est, mt, ui, tr >>

\* One item: the sidecar is read and patched, the final subtitle is tested
\* for existence (lines 125 and 394) or written, the fallback file deleted or
\* written.
PathsItem ==
    /\ px.pc = "run"
    /\ px.k <= Len(px.vids)
    /\ LET video_path == px.vids[px.k]
       IN  px' = [px EXCEPT !.k = @ + 1,
                            !.ops = @ \cup { [file |-> meta_path(video_path), by |-> px.k],
                                             [file |-> final_srt_path(video_path), by |-> px.k],
                                             [file |-> fallback_source_srt_path(video_path),
                                              by |-> px.k] }]
    /\ UNCHANGED << sig, final_srt, source_srt, meta, tmp, run, pc, idx, mode, eom, videos,
                    durations, results, samples, cancel, cancelK, calls, transcript, prev,
                    env, budget, svc, aw, est, mt, ui, tr >>

PathsReturn ==
    /\ px.pc = "run"
    /\ px.k > Len(px.vids)
    /\ px' = [px EXCEPT !.pc = "done"]
    /\ UNCHANGED << sig, final_srt, source_srt, meta, tmp, run, pc, idx, mode, eom, videos,
                    durations, results, samples, cancel, cancelK, calls, transcript, prev,
                    env, budget, svc, aw, est, mt, ui, tr >>

NextPaths ==
    \/ px.pc = "idle" /\ \E a \in VideoPaths, b \in VideoPaths : PathsCall(a, b)
    \/ PathsItem
    \/ PathsReturn

SpecPaths == InitMerge /\ [][NextPaths]_vars

\* ------------------------------------------------------------------ C38
\* C38: for two distinct video paths of a run the final subtitle paths, the
\* fallback paths and the sidecar paths are pairwise distinct: no file is
\* written or tested on behalf of more than one video.
C38_DistinctOutputs ==
    \A o1 \in px.ops, o2 \in px.ops : o1.file = o2.file => o1.by = o2.by

\* ------------------------------------------------------------------ C39
ScanOf(f) == DocOf(f).scan

\* The step in which run_batch and process_one_video call _set_scan_fields
\* for the item.
ScanFieldsCalled == pc = "loop" /\ pc' \in {"inflight", "raised"}

\* A stored first_seen_utc is kept and last_seen_utc does not decrease.
ScanFieldsKeptStep ==
    \A v \in Videos :
        /\ ScanOf(meta[v]).first_seen_utc # 0 =>
               ScanOf(meta'[v]).first_seen_utc = ScanOf(meta[v]).first_seen_utc
        /\ ScanOf(meta'[v]).last_seen_utc >= ScanOf(meta[v]).last_seen_utc

ScanFieldsAlwaysSetStep ==
    /\ ScanFieldsKeptStep
    /\ ScanFieldsCalled => ScanOf(meta'[videos[idx]]).last_seen_utc = Now

\* C39 as stated: a stored first_seen is never changed by a later scan or
\* processing, and every _set_scan_fields call sets last_seen and
\* last_scanned to the time of the call, so that they never decrease.
C39_ScanTimestamps == [][ScanFieldsAlwaysSetStep]_vars

ScanFieldsBestEffortStep ==
    /\ ScanFieldsKeptStep
    /\ ScanFieldsCalled =>
           LET v == videos[idx]
           IN  /\ ScanOf(meta'[v]).last_seen_utc \in {Now, ScanOf(meta[v]).last_seen_utc}
               /\ env[v].wfail = {FALSE} => ScanOf(meta'[v]).last_seen_utc = Now
               /\ ScanOf(meta'[v]).last_seen_utc = Now =>
                      ScanOf(meta'[v]).first_seen_utc # 0

\* C39: a stored first_seen is never changed by a later scan or processing;
\* a _set_scan_fields call whose sidecar write succeeds sets last_seen and
\* last_scanned to the time of the call and leaves them as they were when the
\* write fails, so that they never decrease.
C39_ScanTimestampsBestEffort == [][ScanFieldsBestEffortStep]_vars

C39_Witness ==
    /\ pc = "returned"
    /\ Now > 1
    /\ \E i \in 1..Len(results) :
           /\ ScanOf(meta[videos[i]]).first_seen_utc = 1
           /\ ScanOf(meta[videos[i]]).last_seen_utc = Now
           /\ TRUE \in env[videos[i]].wfail

\* ------------------------------------------------------------------ C31
IsPrefix(a, b) == Len(a) <= Len(b) /\ SubSeq(b, 1, Len(a)) = a

IsCompletion(ev) == ev.kind \in {"done", "error"}

\* What poll_ui_events has consumed so far.
Consumed == SubSeq(Emitted, 1, ui.got)

\* A step puts events behind those already put, takes at most the oldest
\* event of the queue, and leaves the completion event the last one put.
ChannelStep ==
    /\ IsPrefix(Emitted, Emitted')
    /\ IsPrefix(Consumed, Consumed')
    /\ IsPrefix(Consumed', Emitted')
    /\ Len(Consumed') <= Len(Consumed) + 1
    /\ \A k \in 1..Len(Emitted') : IsCompletion(Emitted'[k]) => k = Len(Emitted')
    /\ \A k \in 1..Len(Consumed') : IsCompletion(Consumed'[k]) => Consumed' = Emitted'

StoppedEarly == Len(results) < Len(videos)

\* C36 as stated: the completion event says 'Cancelled' exactly when
\* run_batch stopped before it had processed every filtered item, and a run
\* reported as 'Done' has a Result for every filtered item.
C36_CancelledIffStoppedEarly ==
    ui.fin \in {"Done", "Cancelled"} =>
        /\ (ui.fin = "Cancelled") = StoppedEarly
        /\ ui.fin = "Done" => Len(results) = Len(videos)

\* C36: a run reported as 'Done' has a Result for every filtered item and
\* never saw the flag set; a run that stopped before it had processed every
\* filtered item is reported as 'Cancelled'; a run is reported as 'Cancelled'
\* exactly when the flag is set at the time the worker reads it after
\* run_batch has returned, which includes a flag set during or after the
\* last item, when every filtered item has its Result.
C36_CancelledIffFlagSet ==
    ui.fin \in {"Done", "Cancelled"} =>
        /\ (ui.fin = "Cancelled") = cancel
        /\ StoppedEarly => ui.fin = "Cancelled"
        /\ ui.fin = "Done" => Len(results) = Len(videos) /\ cancelK = -1

\* The flag was set while the last item was in process_one_video: every
\* item has its Result and the run is reported as cancelled.
C36_Witness ==
    /\ ui.fin = "Cancelled"
    /\ Len(videos) = NumVideos
    /\ Len(results) = NumVideos
    /\ cancelK = NumVideos

====
